---- MODULE Spec2Model ----
(***************************************************************************)
(* Model of the particle simulation core of the Kumon repository:          *)
(*   - ChronosBuffer (src/src/core/time/ChronosBuffer.ts), the ring buffer  *)
(*     of recorded frames;                                                  *)
(*   - usePhysicsEngine (src/src/hooks/usePhysicsEngine.ts), the            *)
(*     orchestrator: tick loop, pause/resume, connections.                  *)
(*                                                                          *)
(* Numbers: a JavaScript number is modelled by an integer (integers of     *)
(* magnitude below 2^53 are exact doubles).  A Float32Array element holds  *)
(* the single-precision rounding of what is stored in it (Fround).         *)
(***************************************************************************)
EXTENDS Integers, Sequences, FiniteSets, TLC

(***************************************************************************)
(* Bounds of the model.                                                     *)
(***************************************************************************)
\* capacity (maxFrames) the modelled buffer is constructed with
MaxFrames == 2
\* entityCount the modelled buffer is constructed with
EntityCount == 2
\* denominator of the scrub fractions tried: p = n / 2^ScrubBits, exact doubles
ScrubBits == 1

(***************************************************************************)
(* Memory layout constants (ChronosBuffer.ts LAYOUT).                       *)
(***************************************************************************)
FLOATS_PER_ENTITY == 6
OFFSET_X == 0
OFFSET_Y == 1
OFFSET_VX == 2
OFFSET_VY == 3
OFFSET_AX == 4
OFFSET_AY == 5

\* 2^24: every integer of smaller magnitude is a Float32 value
F32_EXACT_LIMIT == 16777216

NULL == "null"

Min(a, b) == IF a < b THEN a ELSE b
Max(a, b) == IF a > b THEN a ELSE b

(***************************************************************************)
(* Float32 rounding of an integer-valued double (round to nearest, ties to *)
(* even), as done by a store into a Float32Array.                           *)
(***************************************************************************)
RECURSIVE F32Quantum(_, _)
F32Quantum(a, q) == IF a < F32_EXACT_LIMIT * q THEN q ELSE F32Quantum(a, 2 * q)

FroundAbs(a) ==
    LET q  == F32Quantum(a, 1)
        n  == a \div q
        lo == n * q
        r  == a - lo
    IN  IF 2 * r < q THEN lo
        ELSE IF 2 * r > q THEN lo + q
        ELSE IF n % 2 = 0 THEN lo ELSE lo + q

Fround(v) == IF v < 0 THEN 0 - FroundAbs(0 - v) ELSE FroundAbs(v)

(***************************************************************************)
(* Vector2D and KineticState values.                                        *)
(***************************************************************************)
Vec(x, y) == [x |-> x, y |-> y]
VecZero == Vec(0, 0)

\* the inputs: entity number i (1-based) in variant v; variant 2 holds values
\* that are doubles but not Float32 values (odd integers above 2^24)
KinBase(v) == IF v = 1 THEN 0 ELSE IF v = 2 THEN F32_EXACT_LIMIT ELSE 1000

KinState(i, v) ==
    [ position     |-> Vec(KinBase(v) + 8 * i + 1, 0 - (KinBase(v) + 8 * i + 2)),
      velocity     |-> Vec(KinBase(v) + 8 * i + 3, 0 - (8 * i + 4)),
      acceleration |-> Vec(8 * i + 5, 8 * i + 6 + v),
      mass         |-> i,
      damping      |-> 1,
      radius       |-> 20 + 2 * i ]

ListLengths == {n \in (EntityCount - 1)..(EntityCount + 1) : n >= 0}
EntityList(n, v) == [i \in 1..n |-> KinState(i, v)]
\* the arrays handed to recordFrame: as many entities as the buffer was built
\* for (in both variants), one fewer, one more
EntityLists ==
    { EntityList(EntityCount, 1), EntityList(EntityCount, 2),
      EntityList(Max(EntityCount - 1, 0), 1), EntityList(EntityCount + 1, 2) }
\* the arrays handed to replayFrame: entities in a state of their own
ReplayLists == {EntityList(n, 3) : n \in ListLengths}

(***************************************************************************)
(* ChronosBuffer                                                            *)
(***************************************************************************)
\* constructor
NewChronosBuffer(maxFrames, entityCount) ==
    [ buffer         |-> [k \in 0..(maxFrames * (entityCount * FLOATS_PER_ENTITY) - 1) |-> 0],
      maxFrames      |-> maxFrames,
      entityCount    |-> entityCount,
      floatsPerEntity |-> FLOATS_PER_ENTITY,
      frameStride    |-> entityCount * FLOATS_PER_ENTITY,
      headIndex      |-> 0,
      playbackIndex  |-> 0,
      recordedFrames |-> 0,
      isRecording    |-> TRUE ]

\* the field of a kinetic state that goes to layout offset f
LayoutField(e, f) ==
    CASE f = OFFSET_X  -> e.position.x
      [] f = OFFSET_Y  -> e.position.y
      [] f = OFFSET_VX -> e.velocity.x
      [] f = OFFSET_VY -> e.velocity.y
      [] f = OFFSET_AX -> e.acceleration.x
      [] f = OFFSET_AY -> e.acceleration.y

EntityLimitUnclamped(c, ents) == Len(ents)

\* entityLimit = Math.min(entities.length, this.entityCount)
EntityLimit(c, ents) == Min(Len(ents), c.entityCount)

\* the element stores of recordFrame's loop: <<index, value>>
RecordWrites(c, ents) ==
    LET frameOffset == c.headIndex * c.frameStride
    IN  { << frameOffset + (i * c.floatsPerEntity) + f, LayoutField(ents[i + 1], f) >> :
            i \in 0..(EntityLimit(c, ents) - 1), f \in 0..(FLOATS_PER_ENTITY - 1) }

\* typed-array stores: a store outside the array is dropped, a stored value is
\* rounded to Float32
StoreAll(buf, writes) ==
    [k \in DOMAIN buf |->
        IF \E w \in writes : w[1] = k
        THEN Fround((CHOOSE w \in writes : w[1] = k)[2])
        ELSE buf[k]]

\* buffer[k] ?? 0
ReadFloat(c, k) == IF k \in DOMAIN c.buffer THEN c.buffer[k] ELSE 0

\* recordFrame without the cap of recordedFrames at maxFrames
RecordFrameNoCap(c, ents) ==
    IF ~c.isRecording THEN c
    ELSE [c EXCEPT
            !.buffer         = StoreAll(c.buffer, RecordWrites(c, ents)),
            !.headIndex      = (c.headIndex + 1) % c.maxFrames,
            !.recordedFrames = c.recordedFrames + 1,
            !.playbackIndex  = (c.headIndex + 1) % c.maxFrames]

\* recordFrame whose head does not come back to slot 0 after the last slot
RecordFrameNoWrap(c, ents) ==
    IF ~c.isRecording THEN c
    ELSE [c EXCEPT
            !.buffer         = StoreAll(c.buffer, RecordWrites(c, ents)),
            !.headIndex      = Min(c.headIndex + 1, c.maxFrames - 1),
            !.recordedFrames = Min(c.recordedFrames + 1, c.maxFrames),
            !.playbackIndex  = Min(c.headIndex + 1, c.maxFrames - 1)]

\* recordFrame that moves the head on while recording is paused
RecordFrameHeadMovesPaused(c, ents) ==
    IF ~c.isRecording THEN [c EXCEPT !.headIndex = (c.headIndex + 1) % c.maxFrames]
    ELSE [c EXCEPT
            !.buffer         = StoreAll(c.buffer, RecordWrites(c, ents)),
            !.headIndex      = (c.headIndex + 1) % c.maxFrames,
            !.recordedFrames = Min(c.recordedFrames + 1, c.maxFrames),
            !.playbackIndex  = (c.headIndex + 1) % c.maxFrames]

RecordFrame(c, ents) ==
    IF ~c.isRecording THEN c
    ELSE [c EXCEPT
            !.buffer         = StoreAll(c.buffer, RecordWrites(c, ents)),
            !.headIndex      = (c.headIndex + 1) % c.maxFrames,
            !.recordedFrames = Min(c.recordedFrames + 1, c.maxFrames),
            !.playbackIndex  = (c.headIndex + 1) % c.maxFrames]

\* clampedOffset = Math.min(framesBack, this.recordedFrames - 1)
ClampedOffset(c, framesBack) == Min(framesBack, c.recordedFrames - 1)

TargetFrameForward(c, framesBack) ==
    (c.headIndex + ClampedOffset(c, framesBack)) % c.maxFrames

\* targetFrame = (headIndex - 1 - clampedOffset + maxFrames) % maxFrames
TargetFrame(c, framesBack) ==
    (c.headIndex - 1 - ClampedOffset(c, framesBack) + c.maxFrames) % c.maxFrames

\* entityOffset = frameOffset + (i * floatsPerEntity), frameOffset = frame * frameStride
EntityOffset(c, frame, i) == (frame * c.frameStride) + (i * c.floatsPerEntity)

\* replayFrame restoring the acceleration of the frame as well
ReplayedEntitiesWithAcceleration(c, framesBack, ents) ==
    IF c.recordedFrames = 0 THEN ents
    ELSE LET targetFrame == TargetFrame(c, framesBack)
         IN  [n \in 1..Len(ents) |->
                IF n - 1 < EntityLimit(c, ents)
                THEN LET entityOffset == EntityOffset(c, targetFrame, n - 1)
                     IN  [ents[n] EXCEPT
                            !.position = Vec(ReadFloat(c, entityOffset + OFFSET_X),
                                             ReadFloat(c, entityOffset + OFFSET_Y)),
                            !.velocity = Vec(ReadFloat(c, entityOffset + OFFSET_VX),
                                             ReadFloat(c, entityOffset + OFFSET_VY)),
                            !.acceleration = Vec(ReadFloat(c, entityOffset + OFFSET_AX),
                                                 ReadFloat(c, entityOffset + OFFSET_AY))]
                ELSE ents[n]]

\* the entities as replayFrame leaves them
ReplayedEntities(c, framesBack, ents) ==
    IF c.recordedFrames = 0 THEN ents
    ELSE LET targetFrame == TargetFrame(c, framesBack)
         IN  [n \in 1..Len(ents) |->
                IF n - 1 < EntityLimit(c, ents)
                THEN LET entityOffset == EntityOffset(c, targetFrame, n - 1)
                     IN  [ents[n] EXCEPT
                            !.position = Vec(ReadFloat(c, entityOffset + OFFSET_X),
                                             ReadFloat(c, entityOffset + OFFSET_Y)),
                            !.velocity = Vec(ReadFloat(c, entityOffset + OFFSET_VX),
                                             ReadFloat(c, entityOffset + OFFSET_VY))]
                ELSE ents[n]]

\* the buffer as replayFrame leaves it
ReplayFrame(c, framesBack) ==
    IF c.recordedFrames = 0 THEN c
    ELSE [c EXCEPT !.playbackIndex = TargetFrame(c, framesBack)]

GetEntityAtFrame(c, entityIndex, framesBack) ==
    IF c.recordedFrames = 0 \/ entityIndex >= c.entityCount THEN NULL
    ELSE LET entityOffset == EntityOffset(c, TargetFrame(c, framesBack), entityIndex)
         IN  [ x  |-> ReadFloat(c, entityOffset + OFFSET_X),
               y  |-> ReadFloat(c, entityOffset + OFFSET_Y),
               vx |-> ReadFloat(c, entityOffset + OFFSET_VX),
               vy |-> ReadFloat(c, entityOffset + OFFSET_VY) ]

\* getEntityAtFrame returns an object (not null)
HasEntityAtFrame(c, entityIndex) == ~(c.recordedFrames = 0 \/ entityIndex >= c.entityCount)

\* the loop of getTrail from i on: for (i < length) { data = getEntityAtFrame(entityIndex, i);
\* if (data) trail.push(new Vector2D(data.x, data.y)) }
RECURSIVE TrailFrom(_, _, _, _)
TrailFrom(c, entityIndex, i, length) ==
    IF i >= length THEN << >>
    ELSE (IF HasEntityAtFrame(c, entityIndex)
          THEN LET data == GetEntityAtFrame(c, entityIndex, i)
               IN  << Vec(data.x, data.y) >>
          ELSE << >>) \o TrailFrom(c, entityIndex, i + 1, length)

\* getTrail whose loop runs trailLength times whatever is recorded
GetTrailUncapped(c, entityIndex, trailLength) ==
    TrailFrom(c, entityIndex, 0, trailLength)

GetTrail(c, entityIndex, trailLength) ==
    TrailFrom(c, entityIndex, 0, Min(trailLength, c.recordedFrames))

RECURSIVE Pow2(_)
Pow2(n) == IF n = 0 THEN 1 ELSE 2 * Pow2(n - 1)

\* the scrub fractions tried are n / ScrubDen, n an integer (outside [0,1] too)
ScrubDen == Pow2(ScrubBits)

\* scrub with the fraction taken from the newest frame instead of the oldest
ScrubOffsetFromNewest(recordedFrames, n) ==
    LET clampedN == Max(0, Min(ScrubDen, n))
        offset   == (recordedFrames * clampedN) \div ScrubDen
    IN  Max(0, Min(offset, recordedFrames - 1))

\* scrub(percentage) for percentage = n / ScrubDen:
\* floor(recordedFrames * (1 - clampedPct)), then clamped to [0, recordedFrames-1]
ScrubOffset(recordedFrames, n) ==
    LET clampedN == Max(0, Min(ScrubDen, n))
        offset   == (recordedFrames * (ScrubDen - clampedN)) \div ScrubDen
    IN  Max(0, Min(offset, recordedFrames - 1))

Scrub(c, n) == ScrubOffset(c.recordedFrames, n)

Pause(c) == [c EXCEPT !.isRecording = FALSE]
Resume(c) == [c EXCEPT !.isRecording = TRUE]
ToggleRecording(c) == [c EXCEPT !.isRecording = ~c.isRecording]

\* clear that resets the cursors and the count but leaves the stored floats
ClearCursorsOnly(c) ==
    [c EXCEPT !.headIndex = 0,
              !.playbackIndex = 0,
              !.recordedFrames = 0]

Clear(c) ==
    [c EXCEPT !.buffer = [k \in DOMAIN c.buffer |-> 0],
              !.headIndex = 0,
              !.playbackIndex = 0,
              !.recordedFrames = 0]

(***************************************************************************)
(* State of the buffer specification.                                       *)
(*   chronos   the ChronosBuffer object                                     *)
(*   entities  the caller's array passed to the last operation, as that     *)
(*             call left it (empty when the operation takes no array)       *)
(*   log       history: the entity lists of the recordFrame calls that     *)
(*             recorded, since construction or the last clear, oldest first *)
(*             (only the last maxFrames are kept)                           *)
(*   calls     history: how many recordFrame calls recorded since then      *)
(*   slotCall  history: for each frame slot, the number of the recording    *)
(*             call that last wrote it (0: none)                            *)
(*   lastOp    history: the last operation and its arguments                *)
(***************************************************************************)
VARIABLES chronos, entities, log, calls, slotCall, lastOp

(***************************************************************************)
(* State of the orchestrator specification (usePhysicsEngine).              *)
(*   props        the hook's arguments at the last render                   *)
(*   particles    particlesRef: the entity table, in insertion order        *)
(*   isRunning    isRunningRef                                              *)
(*   frameId      frameIdRef                                                *)
(*   tickCount    tickRef                                                   *)
(*   connections  connectionsRef: the keys, in insertion order              *)
(*   cortexIds    the identities cortexRef holds a packet for               *)
(*   pending      the host's animation-frame callbacks not yet run: the id  *)
(*                requestAnimationFrame returned and the render (env) the   *)
(*                animate callback belongs to                               *)
(*   nextFrameId  the id the next requestAnimationFrame returns             *)
(*   phase        where animate / simulate is: the loop it is about to run  *)
(*   tickEnv      the env of the simulate that is running                   *)
(*   userPaused   history: pause() was called and resume() not since        *)
(*   preTick      history: chronosRef as the running (or last) tick found it *)
(*   ops          history: number of calls and renders so far               *)
(* chronos is chronosRef there, and lastOp the last call.                   *)
(***************************************************************************)
VARIABLES props, particles, isRunning, frameId, tickCount, connections, cortexIds,
          pending, nextFrameId, phase, tickEnv, userPaused, preTick, ops

bufferVars == << chronos, entities, log, calls, slotCall, lastOp >>
engineVars == << props, particles, isRunning, frameId, tickCount, connections, cortexIds,
                 pending, nextFrameId, phase, tickEnv, userPaused, preTick, ops >>

(***************************************************************************)
(* The state of the two stateless kernels when they are exercised on their  *)
(* own:                                                                     *)
(*   packet       the CognitivePacket handed to CortexEngine                *)
(*   cortexTick   the tick the caller passes to the next process call       *)
(*   cortexCalls  history: number of process calls made                     *)
(*   transaction  the transaction states a chain of transitions went through *)
(*   integrator   the NewtonianIntegrator (method, maxVelocity,             *)
(*                minVelocityThreshold)                                     *)
(*   kinetic      the KineticState handed to the integrator                 *)
(*   kineticOps   history: number of calls made on the integrator           *)
(***************************************************************************)
VARIABLES packet, cortexTick, cortexCalls, integrator, kinetic, kineticOps, transaction

kernelVars == << packet, cortexTick, cortexCalls, integrator, kinetic, kineticOps,
                 transaction >>
vars == << bufferVars, engineVars, kernelVars >>

\* the kernels are not part of the buffer or the orchestrator specification
KernelsUnused ==
    /\ packet = << >>
    /\ cortexTick = 0
    /\ cortexCalls = 0
    /\ integrator = << >>
    /\ kinetic = << >>
    /\ kineticOps = 0
    /\ transaction = << >>

\* recordFrame calls the model follows before it stops recording more
MaxCalls == MaxFrames + 5
\* offsets tried by replayFrame and getEntityAtFrame, negative ones included
Offsets == (0 - 1)..MaxFrames
\* the entity indexes and trail lengths getTrail is called with
EntityIndexesTried == {0, EntityCount - 1, EntityCount}
TrailLengthsTried == {1, MaxFrames + 1}
ScrubInputs == (0 - 1)..(ScrubDen + 1)

\* the last n elements of a sequence
LastN(s, n) == IF Len(s) <= n THEN s ELSE SubSeq(s, Len(s) - n + 1, Len(s))

Op(name, arg, pre, ret) == [op |-> name, arg |-> arg, pre |-> pre, ret |-> ret]

\* the orchestrator is not part of the buffer specification
EngineUnused ==
    /\ props = << >>
    /\ particles = << >>
    /\ isRunning = FALSE
    /\ frameId = 0
    /\ tickCount = 0
    /\ connections = << >>
    /\ cortexIds = {}
    /\ pending = {}
    /\ nextFrameId = 1
    /\ phase = "idle"
    /\ tickEnv = << >>
    /\ userPaused = FALSE
    /\ preTick = << >>
    /\ ops = 0

Init ==
    /\ chronos = NewChronosBuffer(MaxFrames, EntityCount)
    /\ entities = << >>
    /\ log = << >>
    /\ calls = 0
    /\ slotCall = [f \in 0..(MaxFrames - 1) |-> 0]
    /\ lastOp = Op("new", 0, << >>, 0)
    /\ EngineUnused
    /\ KernelsUnused

DoRecordFrame ==
    \E ents \in EntityLists :
        /\ calls < MaxCalls
        /\ chronos' = RecordFrame(chronos, ents)
        /\ entities' = ents
        /\ log' = IF chronos.isRecording
                  THEN LastN(Append(log, ents), chronos.maxFrames) ELSE log
        /\ calls' = IF chronos.isRecording THEN calls + 1 ELSE calls
        /\ slotCall' = IF chronos.isRecording
                       THEN [slotCall EXCEPT ![chronos.headIndex] = calls + 1]
                       ELSE slotCall
        /\ lastOp' = Op("recordFrame", 0, ents, 0)
        /\ UNCHANGED << engineVars, kernelVars >>

DoReplayFrame ==
    \E framesBack \in Offsets, ents \in ReplayLists :
        /\ chronos' = ReplayFrame(chronos, framesBack)
        /\ entities' = ReplayedEntities(chronos, framesBack, ents)
        /\ lastOp' = Op("replayFrame", framesBack, ents, 0)
        /\ UNCHANGED << log, calls, slotCall >>
        /\ UNCHANGED << engineVars, kernelVars >>

DoScrub ==
    \E n \in ScrubInputs :
        /\ lastOp' = Op("scrub", n, << >>, Scrub(chronos, n))
        /\ entities' = << >>
        /\ UNCHANGED << chronos, log, calls, slotCall >>
        /\ UNCHANGED << engineVars, kernelVars >>

DoPause ==
    /\ chronos' = Pause(chronos)
    /\ lastOp' = Op("pause", 0, << >>, 0)
    /\ entities' = << >>
    /\ UNCHANGED << log, calls, slotCall >>
    /\ UNCHANGED << engineVars, kernelVars >>

DoResume ==
    /\ chronos' = Resume(chronos)
    /\ lastOp' = Op("resume", 0, << >>, 0)
    /\ entities' = << >>
    /\ UNCHANGED << log, calls, slotCall >>
    /\ UNCHANGED << engineVars, kernelVars >>

DoToggleRecording ==
    /\ chronos' = ToggleRecording(chronos)
    /\ lastOp' = Op("toggleRecording", 0, << >>, 0)
    /\ entities' = << >>
    /\ UNCHANGED << log, calls, slotCall >>
    /\ UNCHANGED << engineVars, kernelVars >>

DoClear ==
    /\ chronos' = Clear(chronos)
    /\ log' = << >>
    /\ calls' = 0
    /\ slotCall' = [f \in DOMAIN slotCall |-> 0]
    /\ lastOp' = Op("clear", 0, << >>, chronos.recordedFrames)
    /\ entities' = << >>
    /\ UNCHANGED << engineVars, kernelVars >>

\* getTrail(entityIndex, trailLength): a read, its result kept in lastOp.ret
DoGetTrail ==
    \E entityIndex \in EntityIndexesTried, trailLength \in TrailLengthsTried :
        /\ lastOp' = Op("getTrail", << entityIndex, trailLength >>, << >>,
                        GetTrail(chronos, entityIndex, trailLength))
        /\ entities' = << >>
        /\ UNCHANGED << chronos, log, calls, slotCall >>
        /\ UNCHANGED << engineVars, kernelVars >>

Next ==
    \/ DoRecordFrame
    \/ DoReplayFrame
    \/ DoScrub
    \/ DoPause
    \/ DoResume
    \/ DoToggleRecording
    \/ DoClear
    \/ DoGetTrail

Spec == Init /\ [][Next]_vars

(***************************************************************************)
(* Properties of the buffer.                                                *)
(***************************************************************************)
\* the entity list of the recording call j calls before the last one
LoggedBack(j) == log[Len(log) - j]

\* position and velocity of e are the Float32 values of those of src
HoldsFloat32Of(e, src) ==
    /\ e.position = Vec(Fround(src.position.x), Fround(src.position.y))
    /\ e.velocity = Vec(Fround(src.velocity.x), Fround(src.velocity.y))

ReplayedZero == lastOp.op = "replayFrame" /\ lastOp.arg = 0 /\ calls > 0

\* C1 as stated: after recordFrame calls, replayFrame(0, entities) leaves every
\* supplied entity with exactly the position and velocity it was recorded with in
\* the most recent recordFrame call.
C1_ReplayZeroExact ==
    ReplayedZero =>
        \A n \in 1..Min(Len(entities), Len(LoggedBack(0))) :
            /\ entities[n].position = LoggedBack(0)[n].position
            /\ entities[n].velocity = LoggedBack(0)[n].velocity

\* C1 amended: replayFrame(0, entities) leaves every supplied entity whose index
\* is below entityCount (and that was in the most recent recordFrame call) with
\* the Float32 rounding of the position and velocity it was recorded with in that
\* call, and leaves the entities at an index >= entityCount as they were.
C1_ReplayZeroFloat32 ==
    ReplayedZero =>
        /\ Len(entities) = Len(lastOp.pre)
        /\ \A n \in 1..Len(entities) :
              IF n <= chronos.entityCount
              THEN n <= Len(LoggedBack(0)) => HoldsFloat32Of(entities[n], LoggedBack(0)[n])
              ELSE entities[n] = lastOp.pre[n]

\* C1 witness: replayFrame(0) ran after the head wrapped, restored an entity whose
\* recorded position is no Float32 value, and was handed one entity too many.
C1_Witness ==
    /\ ReplayedZero
    /\ calls > MaxFrames
    /\ Len(entities) > chronos.entityCount
    /\ Len(LoggedBack(0)) > 0
    /\ LoggedBack(0)[1].position.x # Fround(LoggedBack(0)[1].position.x)
    /\ entities[1].position.x = Fround(LoggedBack(0)[1].position.x)

\* the frame slots any offset of replayFrame / getEntityAtFrame reads from
ReadSlots(c) ==
    { EntityOffset(c, TargetFrame(c, fb), i) \div c.frameStride :
        fb \in Offsets, i \in 0..(c.entityCount - 1) }

\* C2: after exactly maxFrames + 5 recorded frames, recordedFrames = maxFrames and
\* every offset of replayFrame / getEntityAtFrame reads a frame written by one of
\* the last maxFrames calls, never one of the first 5; all of the last maxFrames
\* are retrievable.
C2_OldestFiveGone ==
    calls = chronos.maxFrames + 5 =>
        /\ chronos.recordedFrames = chronos.maxFrames
        /\ \A slot \in ReadSlots(chronos) : slotCall[slot] > 5
        /\ { slotCall[TargetFrame(chronos, fb)] : fb \in 0..(chronos.maxFrames - 1) }
              = 6..(chronos.maxFrames + 5)

\* C2 witness: maxFrames + 5 frames were recorded and a replay of the oldest
\* retrievable offset ran.
C2_Witness ==
    /\ calls = chronos.maxFrames + 5
    /\ lastOp.op = "replayFrame"
    /\ lastOp.arg = chronos.maxFrames - 1
    /\ slotCall[chronos.playbackIndex] = 6

\* C3: the cursors stay in range, the buffer keeps its length, and every store of
\* recordFrame lands inside the buffer.
C3_CursorsInRange ==
    /\ chronos.recordedFrames \in 0..chronos.maxFrames
    /\ chronos.headIndex \in 0..(chronos.maxFrames - 1)
    /\ chronos.playbackIndex \in 0..(chronos.maxFrames - 1)
    /\ DOMAIN chronos.buffer
          = 0..(chronos.maxFrames * chronos.entityCount * FLOATS_PER_ENTITY - 1)
    /\ \A ents \in EntityLists :
          \A w \in RecordWrites(chronos, ents) : w[1] \in DOMAIN chronos.buffer

\* C3 witness: the head has wrapped, the last slot is the head, and a replay with
\* a negative offset and one entity too many has just run.
C3_Witness ==
    /\ calls > chronos.maxFrames
    /\ chronos.headIndex = chronos.maxFrames - 1
    /\ lastOp.op = "replayFrame"
    /\ lastOp.arg < 0
    /\ Len(lastOp.pre) > chronos.entityCount

\* C4 as stated: replayFrame(framesBack) restores the frame at offset
\* min(max(framesBack, 0), recordedFrames - 1), for negative framesBack too, and
\* never reads a slot that holds no recorded frame.
C4_ClampedBothSides ==
    (lastOp.op = "replayFrame" /\ chronos.recordedFrames > 0) =>
        LET offset == Min(Max(lastOp.arg, 0), chronos.recordedFrames - 1)
        IN  /\ slotCall[chronos.playbackIndex] # 0
            /\ slotCall[chronos.playbackIndex] = calls - offset

\* C5 as stated: scrub(0.0) = 0 and scrub(1.0) = recordedFrames - 1.
C5_ScrubZeroIsNewest ==
    (lastOp.op = "scrub" /\ chronos.recordedFrames > 0) =>
        /\ lastOp.arg = 0 => lastOp.ret = 0
        /\ lastOp.arg = ScrubDen => lastOp.ret = chronos.recordedFrames - 1

\* C5 amended: scrub(1.0) = 0 (the most recent frame) and scrub(0.0) =
\* recordedFrames - 1 (the oldest available frame); every result is an offset in
\* [0, recordedFrames - 1] (0 when nothing is recorded), fractions outside [0,1]
\* count as 0 or 1; with 10 recorded frames scrub(0.0) = 9 and scrub(1.0) = 0.
C5_ScrubOneIsNewest ==
    /\ lastOp.op = "scrub" =>
          /\ lastOp.arg >= ScrubDen => lastOp.ret = 0
          /\ lastOp.arg <= 0 => lastOp.ret = Max(chronos.recordedFrames - 1, 0)
          /\ lastOp.ret \in 0..Max(chronos.recordedFrames - 1, 0)
    /\ ScrubOffset(10, 0) = 9
    /\ ScrubOffset(10, ScrubDen) = 0

\* C5 witness: scrub(0.0) was called with more than one frame recorded and gave
\* the oldest offset.
C5_Witness ==
    /\ lastOp.op = "scrub"
    /\ lastOp.arg = 0
    /\ chronos.recordedFrames > 1
    /\ lastOp.ret = chronos.recordedFrames - 1

\* C6: after k recording calls, for every offset j < min(k, maxFrames),
\* replayFrame(j) restores the frame of the (k-j)-th call (each entity below
\* entityCount that was in that call gets the Float32 values recorded for it),
\* however often the head has wrapped.
C6_BoundedLog ==
    /\ Len(log) = Min(calls, chronos.maxFrames)
    /\ chronos.recordedFrames = Len(log)
    /\ \A j \in 0..(Len(log) - 1) :
          /\ slotCall[TargetFrame(chronos, j)] = calls - j
          /\ \A ents \in ReplayLists :
                \A n \in 1..Min(Min(Len(ents), chronos.entityCount), Len(LoggedBack(j))) :
                    HoldsFloat32Of(ReplayedEntities(chronos, j, ents)[n], LoggedBack(j)[n])

\* C6 witness: the head has gone round the ring at least twice and replayFrame of
\* the oldest offset restored the frame of the call maxFrames - 1 before the last.
C6_Witness ==
    /\ calls > 2 * chronos.maxFrames
    /\ lastOp.op = "replayFrame"
    /\ lastOp.arg = chronos.maxFrames - 1
    /\ Len(entities) > 0
    /\ HoldsFloat32Of(entities[1], LoggedBack(chronos.maxFrames - 1)[1])
    /\ LoggedBack(chronos.maxFrames - 1)[1] # LoggedBack(0)[1]

(***************************************************************************)
(* usePhysicsEngine: numbers.                                               *)
(* A length or a vector component is held in fixed point, in units of      *)
(* 1/SCALE; products and quotients are rounded toward zero, which keeps     *)
(* the sign symmetry of floating-point rounding.  Masses, the repulsion     *)
(* strength and the target distance are whole numbers; the other settings   *)
(* are fractions num/den.                                                   *)
(***************************************************************************)
SCALE == 10

Abs(a) == IF a < 0 THEN 0 - a ELSE a

\* a / b rounded toward zero (b # 0)
Quot(a, b) ==
    IF (a < 0) = (b < 0) THEN Abs(a) \div Abs(b) ELSE 0 - (Abs(a) \div Abs(b))

RECURSIVE SqrtBetween(_, _, _)
SqrtBetween(n, lo, hi) ==
    IF lo >= hi THEN lo
    ELSE LET mid == (lo + hi + 1) \div 2
         IN  IF mid * mid <= n THEN SqrtBetween(n, mid, hi)
             ELSE SqrtBetween(n, lo, mid - 1)

\* Math.sqrt, rounded down
Sqrt(n) == SqrtBetween(n, 0, Min(n, 46340))

VAdd(a, b) == Vec(a.x + b.x, a.y + b.y)
VSubtract(a, b) == Vec(a.x - b.x, a.y - b.y)
\* multiply(scalar) for scalar = num / den
VMultiply(a, num, den) == Vec(Quot(a.x * num, den), Quot(a.y * num, den))
\* divide(scalar): the zero vector when the scalar is 0
VDivide(a, m) == IF m = 0 THEN VecZero ELSE Vec(Quot(a.x, m), Quot(a.y, m))
VMagnitude(a) == Sqrt(a.x * a.x + a.y * a.y)
\* normalize().multiply(f) for f = num / den: the zero vector when the magnitude is 0
VNormalizeTimes(a, num, den) ==
    LET mag == VMagnitude(a)
    IN  IF mag = 0 THEN VecZero
        ELSE Vec(Quot(a.x * num, mag * den), Quot(a.y * num, mag * den))

(***************************************************************************)
(* usePhysicsEngine: identities and connection keys.  A string is a         *)
(* sequence of characters.                                                  *)
(***************************************************************************)
CharCode(ch) ==
    CASE ch = ":" -> 58
      [] ch = "a" -> 97
      [] ch = "b" -> 98
      [] ch = "c" -> 99

\* s < t for strings: by code unit, a proper prefix first
RECURSIVE StrLess(_, _)
StrLess(s, t) ==
    IF t = << >> THEN FALSE
    ELSE IF s = << >> THEN TRUE
    ELSE IF CharCode(Head(s)) # CharCode(Head(t))
         THEN CharCode(Head(s)) < CharCode(Head(t))
         ELSE StrLess(Tail(s), Tail(t))

IdA == << "a" >>
IdB == << "b" >>
IdC == << "c" >>
\* the id "a:b", which holds the key separator
IdWithColon == << "a", ":", "b" >>
Colon == << ":" >>

\* the key as written, without putting the smaller identity first
ConnectionKeyAsGiven(id1, id2) == id1 \o Colon \o id2

\* key = id1 < id2 ? `${id1}:${id2}` : `${id2}:${id1}`
ConnectionKey(id1, id2) ==
    IF StrLess(id1, id2) THEN id1 \o Colon \o id2 ELSE id2 \o Colon \o id1

\* Set.add / Set.delete on a Set held in insertion order
SeqContains(S, k) == \E n \in 1..Len(S) : S[n] = k
SetAdd(S, k) == IF SeqContains(S, k) THEN S ELSE Append(S, k)
SetDelete(S, k) == SelectSeq(S, LAMBDA e : e # k)

\* index of the particle with the given id in the entity table, 0 if none
IndexOfId(parts, id) ==
    IF \E n \in 1..Len(parts) : parts[n].id = id
    THEN CHOOSE n \in 1..Len(parts) : parts[n].id = id
    ELSE 0

\* particlesRef.current.get(id).isConnected = true, when the particle exists
MarkConnected(parts, id) ==
    [n \in 1..Len(parts) |->
        IF parts[n].id = id THEN [parts[n] EXCEPT !.isConnected = TRUE] ELSE parts[n]]

ConnectParticles(parts, id1, id2) == MarkConnected(MarkConnected(parts, id1), id2)
ConnectSet(S, id1, id2) == SetAdd(S, ConnectionKey(id1, id2))
DisconnectSet(S, id1, id2) == SetDelete(S, ConnectionKey(id1, id2))

\* connectionKey.split(':'): the pieces between the colons
RECURSIVE SplitColon(_, _)
SplitColon(s, piece) ==
    IF s = << >> THEN << piece >>
    ELSE IF Head(s) = ":" THEN << piece >> \o SplitColon(Tail(s), << >>)
    ELSE SplitColon(Tail(s), Append(piece, Head(s)))

(***************************************************************************)
(* usePhysicsEngine: settings, canvas, nodes (the hook's arguments).        *)
(***************************************************************************)
\* DEFAULT_CONFIG
DefaultSettings ==
    [ repulsionStrength |-> 5000,
      attractionNum |-> 1, attractionDen |-> 100,
      dampingNum |-> 85, dampingDen |-> 100,
      targetDistance |-> 100,
      gravityNum |-> 1, gravityDen |-> 100 ]

\* { ...DEFAULT_CONFIG, ...config } for config = { damping: 1, centerGravity: 0 }
OverriddenSettings ==
    [DefaultSettings EXCEPT !.dampingNum = 100, !.gravityNum = 0]

SettingsTried == {DefaultSettings, OverriddenSettings}
CanvasTried == { [width |-> 200, height |-> 200], [width |-> 300, height |-> 200] }

\* what the callbacks created in one render close over
Env(canvas, settings) ==
    [canvasWidth |-> canvas.width, canvasHeight |-> canvas.height, settings |-> settings]

\* a PhysicsNode; xSeed is given by the direction (cos, sin) of its angle
Node(id, dir, mass, color) ==
    [id |-> id, xSeedDir |-> dir, mass |-> mass, color |-> color, type |-> "tutor"]

NodeA == Node(IdA, Vec(1, 0), 1, 1)
NodeB == Node(IdB, Vec(0 - 1, 0), 2, 2)
\* node b supplied again with another mass (none) and color
NodeBMassless == Node(IdB, Vec(0 - 1, 0), 0, 3)
\* node b supplied with the mass of node a
NodeBLight == Node(IdB, Vec(0 - 1, 0), 1, 2)
NodeListsTried == { << NodeA, NodeBLight >>, << NodeA, NodeB >>, << NodeBMassless >> }

\* Math.random() * min(canvasWidth, canvasHeight) * 0.3, the values tried
SpawnRadiiTried == {40}

\* what CortexEngine.process may return, the values tried (in 1/SCALE)
SteeringsTried == { VecZero, Vec(5, 0 - 3) }
\* the impulses of one tick, the cases tried: one value for every entity (entities
\* of one mass in one state get one drift vector in one tick), or the first
\* entity alone steered
ImpulsesTried(count) ==
    { [n \in 1..count |-> steering] : steering \in SteeringsTried }
    \cup { [n \in 1..count |-> IF n = 1 THEN Vec(5, 0 - 3) ELSE VecZero] }

(***************************************************************************)
(* usePhysicsEngine: initializeParticles.                                   *)
(***************************************************************************)
NewParticle(node, env, spawnRadius) ==
    [ id           |-> node.id,
      position     |-> Vec((env.canvasWidth * SCALE) \div 2 + node.xSeedDir.x * spawnRadius * SCALE,
                           (env.canvasHeight * SCALE) \div 2 + node.xSeedDir.y * spawnRadius * SCALE),
      velocity     |-> VecZero,
      acceleration |-> VecZero,
      mass         |-> node.mass,
      damping      |-> [num |-> env.settings.dampingNum, den |-> env.settings.dampingDen],
      radius       |-> (20 + node.mass * 2) * SCALE,
      color        |-> node.color,
      type         |-> node.type,
      isConnected  |-> FALSE ]

\* initializeParticles leaving a retained particle as it was, mass and color too
InitializedParticlesAsTheyWere(existing, newNodes, env, spawn) ==
    [n \in 1..Len(newNodes) |->
        LET at == IndexOfId(existing, newNodes[n].id)
        IN  IF at # 0 THEN existing[at] ELSE NewParticle(newNodes[n], env, spawn[n])]

\* the updated entity table, in the order of newNodes; spawn[n] is the random
\* spawn radius drawn for node n
InitializedParticles(existing, newNodes, env, spawn) ==
    [n \in 1..Len(newNodes) |->
        LET at == IndexOfId(existing, newNodes[n].id)
        IN  IF at # 0
            THEN [existing[at] EXCEPT !.mass = newNodes[n].mass, !.color = newNodes[n].color]
            ELSE NewParticle(newNodes[n], env, spawn[n])]

\* cortexRef after initializeParticles: a packet is set for every new identity
InitializedCortex(ids, existing, newNodes) ==
    ids \cup { newNodes[n].id : n \in { k \in 1..Len(newNodes) :
                                                IndexOfId(existing, newNodes[k].id) = 0 } }

NoChronos == [isNull |-> TRUE]
HasChronos(c) == "buffer" \in DOMAIN c

\* chronosRef after initializeParticles: built once, for newNodes.length entities
InitializedChronos(c, newNodes) ==
    IF ~HasChronos(c) /\ Len(newNodes) > 0
    THEN NewChronosBuffer(MaxFrames, Len(newNodes))
    ELSE c

(***************************************************************************)
(* usePhysicsEngine: forces and the phases of simulate.                     *)
(***************************************************************************)
\* calculateRepulsion
CalculateRepulsion(p1, p2, env) ==
    LET delta    == VSubtract(p1.position, p2.position)
        distance == Max(VMagnitude(delta), SCALE)
        forceMagnitude ==
            Quot(env.settings.repulsionStrength * p1.mass * p2.mass * SCALE * SCALE * SCALE,
                 distance * distance)
    IN  VNormalizeTimes(delta, forceMagnitude, 1)

\* calculateAttraction
CalculateAttraction(p1, p2, env) ==
    LET delta        == VSubtract(p2.position, p1.position)
        distance     == VMagnitude(delta)
        displacement == distance - env.settings.targetDistance * SCALE
    IN  VNormalizeTimes(delta, env.settings.attractionNum * displacement,
                        env.settings.attractionDen)

\* calculateCenterGravity
CalculateCenterGravity(p, env) ==
    LET center == Vec((env.canvasWidth * SCALE) \div 2, (env.canvasHeight * SCALE) \div 2)
        delta  == VSubtract(center, p.position)
    IN  VMultiply(delta, env.settings.gravityNum * p.mass, env.settings.gravityDen)

\* p.acceleration = Vector2D.zero()
ResetAcceleration(parts, i) == [parts EXCEPT ![i].acceleration = VecZero]

\* p.acceleration = p.acceleration.add(steeringImpulse)
ApplySteering(parts, i, steeringImpulse) ==
    [parts EXCEPT ![i].acceleration = VAdd(@, steeringImpulse)]

\* a pair force that pushes both entities the same way
ApplyForcePairSameWay(parts, i, j, force) ==
    LET first == [parts EXCEPT ![i].acceleration = VAdd(@, VDivide(force, parts[i].mass))]
    IN  [first EXCEPT ![j].acceleration = VAdd(@, VDivide(force, first[j].mass))]

\* p1.acceleration += force / p1.mass; then p2.acceleration -= force / p2.mass
ApplyForcePair(parts, i, j, force) ==
    LET first == [parts EXCEPT ![i].acceleration = VAdd(@, VDivide(force, parts[i].mass))]
    IN  [first EXCEPT ![j].acceleration = VSubtract(@, VDivide(force, first[j].mass))]

ApplyRepulsion(parts, i, j, env) ==
    ApplyForcePair(parts, i, j, CalculateRepulsion(parts[i], parts[j], env))

\* the attraction phase pulling on the one endpoint that is in the table
ApplyAttractionToPresent(parts, connectionKey, env) ==
    LET pieces == SplitColon(connectionKey, << >>)
        id1 == pieces[1]
        id2 == IF Len(pieces) >= 2 THEN pieces[2] ELSE << >>
        i == IF id1 # << >> THEN IndexOfId(parts, id1) ELSE 0
        j == IF id2 # << >> THEN IndexOfId(parts, id2) ELSE 0
    IN  IF i # 0 /\ j # 0
        THEN ApplyForcePair(parts, i, j, CalculateAttraction(parts[i], parts[j], env))
        ELSE IF i # 0 THEN [parts EXCEPT ![i].acceleration = VAdd(@, Vec(1, 0))]
        ELSE IF j # 0 THEN [parts EXCEPT ![j].acceleration = VAdd(@, Vec(1, 0))]
        ELSE parts

\* one entry of the connection set in the attraction phase
ApplyAttraction(parts, connectionKey, env) ==
    LET pieces == SplitColon(connectionKey, << >>)
        id1 == pieces[1]
        id2 == IF Len(pieces) >= 2 THEN pieces[2] ELSE << >>
        i == IF id1 # << >> THEN IndexOfId(parts, id1) ELSE 0
        j == IF id2 # << >> THEN IndexOfId(parts, id2) ELSE 0
    IN  IF i # 0 /\ j # 0
        THEN ApplyForcePair(parts, i, j, CalculateAttraction(parts[i], parts[j], env))
        ELSE parts

\* phase C for one particle without the boundary constraints
IntegrateParticleUnbounded(p, env) ==
    LET gravity == CalculateCenterGravity(p, env)
        acc == VAdd(p.acceleration, VDivide(gravity, p.mass))
        vel == VMultiply(VAdd(p.velocity, acc), env.settings.dampingNum, env.settings.dampingDen)
    IN  [p EXCEPT !.acceleration = acc, !.velocity = vel, !.position = VAdd(p.position, vel)]

\* phase C for one particle: gravity, velocity, position, boundary clamp
IntegrateParticle(p, env) ==
    LET gravity == CalculateCenterGravity(p, env)
        acc == VAdd(p.acceleration, VDivide(gravity, p.mass))
        vel == VMultiply(VAdd(p.velocity, acc), env.settings.dampingNum, env.settings.dampingDen)
        pos == VAdd(p.position, vel)
    IN  [p EXCEPT
            !.acceleration = acc,
            !.velocity = vel,
            !.position = Vec(Max(p.radius, Min(env.canvasWidth * SCALE - p.radius, pos.x)),
                             Max(p.radius, Min(env.canvasHeight * SCALE - p.radius, pos.y)))]

IntegrateAt(parts, i, env) == [parts EXCEPT ![i] = IntegrateParticle(parts[i], env)]

\* simulate with the history write put before the integration
NextPhaseRecordBeforeIntegrate(ph) ==
    CASE ph = "reset"     -> "steer"
      [] ph = "steer"     -> "repulse"
      [] ph = "repulse"   -> "attract"
      [] ph = "attract"   -> "record"
      [] ph = "record"    -> "integrate"
      [] ph = "integrate" -> "done"

\* the order of the loops of simulate
NextPhase(ph) ==
    CASE ph = "reset"     -> "steer"
      [] ph = "steer"     -> "repulse"
      [] ph = "repulse"   -> "attract"
      [] ph = "attract"   -> "integrate"
      [] ph = "integrate" -> "record"
      [] ph = "record"    -> "done"

(***************************************************************************)
(* usePhysicsEngine: the specification.                                     *)
(***************************************************************************)
\* ticks the model follows
MaxTicks == 2
\* calls of the public API and renders the model follows
MaxOps == 2

Canvas1 == [width |-> 200, height |-> 200]
Props(nodes, canvas, settings) == [nodes |-> nodes, canvas |-> canvas, settings |-> settings]
EnvOf(pr) == Env(pr.canvas, pr.settings)
IdsTried == {IdA, IdB}
\* the (id1, id2) passed to connect / disconnect: the two node ids in both orders,
\* and a pair whose first id holds the key separator
PairsTried == { << IdA, IdB >>, << IdB, IdA >>, << IdWithColon, IdB >> }

\* requestAnimationFrame(animate) for the animate of the render with this env
Requested(queue, id, env) == queue \cup { [id |-> id, env |-> env] }
\* cancelAnimationFrame(id)
Cancelled(queue, id) == { cb \in queue : cb.id # id }
\* the callback the host runs next: the one requested first
NextCallback(queue) == CHOOSE cb \in queue : \A other \in queue : cb.id <= other.id

\* the hook has mounted: both effects have run once
InitEngine ==
    \E nodes \in NodeListsTried \cup { << >> } :
      \E spawn \in [1..Len(nodes) -> SpawnRadiiTried] :
        LET pr == Props(nodes, Canvas1, DefaultSettings)
        IN  /\ props = pr
            /\ particles = InitializedParticles(<< >>, nodes, EnvOf(pr), spawn)
            /\ cortexIds = InitializedCortex({}, << >>, nodes)
            /\ chronos = InitializedChronos(NoChronos, nodes)
            /\ isRunning = TRUE
            /\ frameId = 1
            /\ pending = Requested({}, 1, EnvOf(pr))
            /\ nextFrameId = 2
            /\ tickCount = 0
            /\ connections = << >>
            /\ phase = "idle"
            /\ tickEnv = EnvOf(pr)
            /\ userPaused = FALSE
            /\ preTick = NoChronos
            /\ ops = 0
            /\ entities = << >>
            /\ log = << >>
            /\ calls = 0
            /\ slotCall = << >>
            /\ lastOp = Op("mount", 0, << >>, 0)
            /\ KernelsUnused

bufferHistoryVars == << entities, log, calls, slotCall >>
tickVars == << phase, tickEnv, preTick, tickCount >>
loopVars == << isRunning, frameId, pending, nextFrameId >>

ApiCall == phase = "idle" /\ ops < MaxOps /\ ops' = ops + 1

\* a render with new arguments, and the effects it re-runs: the cleanup of the
\* start/stop effect, initializeParticles, the start/stop effect
Render ==
    \E newProps \in { Props(nodes, props.canvas, props.settings) : nodes \in NodeListsTried }
                \cup { Props(props.nodes, canvas, props.settings) : canvas \in CanvasTried }
                \cup { Props(props.nodes, props.canvas, settings) : settings \in SettingsTried } :
      \E spawn \in [1..Len(newProps.nodes) -> SpawnRadiiTried] :
        LET oldEnv == EnvOf(props)
            newEnv == EnvOf(newProps)
            animateChanged == newEnv # oldEnv
            initializeChanged ==
                \/ newProps.canvas # props.canvas
                \/ newProps.settings.dampingNum # props.settings.dampingNum
            initRuns == newProps.nodes # props.nodes \/ initializeChanged
        IN  /\ ApiCall
            /\ newProps # props
            /\ props' = newProps
            /\ particles' = IF initRuns
                            THEN InitializedParticles(particles, newProps.nodes, newEnv, spawn)
                            ELSE particles
            /\ cortexIds' = IF initRuns
                            THEN InitializedCortex(cortexIds, particles, newProps.nodes)
                            ELSE cortexIds
            /\ chronos' = IF initRuns THEN InitializedChronos(chronos, newProps.nodes)
                          ELSE chronos
            /\ isRunning' = IF animateChanged THEN TRUE ELSE isRunning
            /\ pending' = IF animateChanged
                          THEN Requested(Cancelled(pending, frameId), nextFrameId, newEnv)
                          ELSE pending
            /\ frameId' = IF animateChanged THEN nextFrameId ELSE frameId
            /\ nextFrameId' = IF animateChanged THEN nextFrameId + 1 ELSE nextFrameId
            /\ lastOp' = Op("render", 0, << >>, 0)
            /\ UNCHANGED << connections, userPaused, tickVars, bufferHistoryVars, kernelVars >>

Connect ==
    \E pair \in PairsTried : \E id1 \in {pair[1]}, id2 \in {pair[2]} :
        /\ ApiCall
        /\ connections' = ConnectSet(connections, id1, id2)
        /\ particles' = ConnectParticles(particles, id1, id2)
        /\ lastOp' = Op("connect", << id1, id2 >>, << >>, 0)
        /\ UNCHANGED << props, chronos, cortexIds, userPaused, loopVars, tickVars,
                        bufferHistoryVars, kernelVars >>

Disconnect ==
    \E pair \in PairsTried : \E id1 \in {pair[1]}, id2 \in {pair[2]} :
        /\ ApiCall
        /\ connections' = DisconnectSet(connections, id1, id2)
        /\ lastOp' = Op("disconnect", << id1, id2 >>, << >>, 0)
        /\ UNCHANGED << props, particles, chronos, cortexIds, userPaused, loopVars,
                        tickVars, bufferHistoryVars, kernelVars >>

PauseLoop ==
    /\ ApiCall
    /\ isRunning' = FALSE
    /\ userPaused' = TRUE
    /\ lastOp' = Op("pause", 0, << >>, 0)
    /\ UNCHANGED << props, particles, chronos, cortexIds, connections, frameId, pending,
                    nextFrameId, tickVars, bufferHistoryVars, kernelVars >>

ResumeLoop ==
    /\ ApiCall
    /\ isRunning' = TRUE
    /\ pending' = IF ~isRunning THEN Requested(pending, nextFrameId, EnvOf(props)) ELSE pending
    /\ frameId' = IF ~isRunning THEN nextFrameId ELSE frameId
    /\ nextFrameId' = IF ~isRunning THEN nextFrameId + 1 ELSE nextFrameId
    /\ userPaused' = FALSE
    /\ lastOp' = Op("resume", 0, << >>, 0)
    /\ UNCHANGED << props, particles, chronos, cortexIds, connections, tickVars,
                    bufferHistoryVars, kernelVars >>

\* scrubTimeline(percentage) for percentage = n / ScrubDen
ScrubTimeline ==
    \E n \in {0, ScrubDen} :
        /\ ApiCall
        /\ HasChronos(chronos)
        /\ chronos' = ReplayFrame(chronos, Scrub(chronos, n))
        /\ particles' = ReplayedEntities(chronos, Scrub(chronos, n), particles)
        /\ lastOp' = Op("scrubTimeline", n, << >>, Scrub(chronos, n))
        /\ UNCHANGED << props, cortexIds, connections, userPaused, loopVars, tickVars,
                        bufferHistoryVars, kernelVars >>

\* the host runs an animation-frame callback: animate
AnimationFrame ==
    /\ phase = "idle"
    /\ pending # {}
    /\ LET cb == NextCallback(pending)
       IN  /\ pending' = pending \ {cb}
           /\ IF ~isRunning
              THEN /\ lastOp' = Op("frameSkipped", cb.id, << >>, 0)
                   /\ UNCHANGED tickVars
              ELSE /\ tickCount < MaxTicks
                   /\ tickCount' = tickCount + 1
                   /\ phase' = "reset"
                   /\ tickEnv' = cb.env
                   /\ preTick' = chronos
                   /\ lastOp' = Op("animate", cb.id, << >>, 0)
    /\ UNCHANGED << props, particles, chronos, cortexIds, connections, isRunning, frameId,
                    nextFrameId, userPaused, ops, bufferHistoryVars, kernelVars >>

\* the loops of simulate, each over all its items
ResetAll(parts) == [n \in 1..Len(parts) |-> ResetAcceleration(parts, n)[n]]

SteerAll(parts, impulses) == [n \in 1..Len(parts) |-> ApplySteering(parts, n, impulses[n])[n]]

\* for i in 0..n-1, for j in i+1..n-1, from the pair (i, j) on
RECURSIVE RepulseFrom(_, _, _, _)
RepulseFrom(parts, i, j, env) ==
    IF i >= Len(parts) THEN parts
    ELSE IF j > Len(parts) THEN RepulseFrom(parts, i + 1, i + 2, env)
    ELSE RepulseFrom(ApplyRepulsion(parts, i, j, env), i, j + 1, env)

RepulseAll(parts, env) == RepulseFrom(parts, 1, 2, env)

\* for each connection key, from the k-th on
RECURSIVE AttractFrom(_, _, _, _)
AttractFrom(parts, keys, k, env) ==
    IF k > Len(keys) THEN parts
    ELSE AttractFrom(ApplyAttraction(parts, keys[k], env), keys, k + 1, env)

AttractAll(parts, keys, env) == AttractFrom(parts, keys, 1, env)

IntegrateAll(parts, env) == [n \in 1..Len(parts) |-> IntegrateParticle(parts[n], env)]

tickFrame == << props, chronos, connections, isRunning, frameId, pending, nextFrameId,
                userPaused, ops, tickEnv, preTick, tickCount, bufferHistoryVars, kernelVars >>

\* simulate goes on to its next loop
Advance == phase' = NextPhase(phase)

StepReset ==
    /\ phase = "reset"
    /\ particles' = ResetAll(particles)
    /\ Advance
    /\ UNCHANGED << cortexIds, tickFrame, lastOp >>

StepSteer ==
    /\ phase = "steer"
    /\ \E impulses \in ImpulsesTried(Len(particles)) :
          /\ particles' = SteerAll(particles, impulses)
          /\ lastOp' = Op("steer", tickCount, impulses, 0)
    /\ cortexIds' = cortexIds \cup { particles[n].id : n \in 1..Len(particles) }
    /\ Advance
    /\ UNCHANGED tickFrame

StepRepulse ==
    /\ phase = "repulse"
    /\ particles' = RepulseAll(particles, tickEnv)
    /\ Advance
    /\ UNCHANGED << cortexIds, tickFrame, lastOp >>

StepAttract ==
    /\ phase = "attract"
    /\ particles' = AttractAll(particles, connections, tickEnv)
    /\ Advance
    /\ UNCHANGED << cortexIds, tickFrame, lastOp >>

StepIntegrate ==
    /\ phase = "integrate"
    /\ particles' = IntegrateAll(particles, tickEnv)
    /\ Advance
    /\ UNCHANGED << cortexIds, tickFrame, lastOp >>

\* the history write; log keeps, frame by frame, the identities whose state
\* went into the slots
StepRecord ==
    /\ phase = "record"
    /\ chronos' = IF HasChronos(chronos) THEN RecordFrame(chronos, particles) ELSE chronos
    /\ Advance
    /\ log' = IF HasChronos(chronos) /\ chronos.isRecording
              THEN Append(log, [n \in 1..Min(Len(particles), chronos.entityCount) |->
                                   particles[n].id])
              ELSE log
    /\ UNCHANGED << props, particles, cortexIds, connections, isRunning, userPaused, ops,
                    tickEnv, preTick, tickCount, pending, frameId, nextFrameId, lastOp,
                    entities, calls, slotCall, kernelVars >>

\* simulate has returned: animate requests the next frame
EndTick ==
    /\ phase = "done"
    /\ phase' = "idle"
    /\ pending' = Requested(pending, nextFrameId, tickEnv)
    /\ frameId' = nextFrameId
    /\ nextFrameId' = nextFrameId + 1
    /\ lastOp' = Op("tick", tickCount, << >>, 0)
    /\ UNCHANGED << props, particles, chronos, cortexIds, connections, isRunning, userPaused,
                    ops, tickEnv, preTick, tickCount, bufferHistoryVars, kernelVars >>

NextEngine ==
    \/ Render
    \/ Connect
    \/ Disconnect
    \/ PauseLoop
    \/ ResumeLoop
    \/ ScrubTimeline
    \/ AnimationFrame
    \/ StepReset
    \/ StepSteer
    \/ StepRepulse
    \/ StepAttract
    \/ StepIntegrate
    \/ StepRecord
    \/ EndTick

SpecEngine == InitEngine /\ [][NextEngine]_vars

(***************************************************************************)
(* usePhysicsEngine: the pointer calls (drag and hit-test), followed with   *)
(* the animation loop alone.                                                *)
(***************************************************************************)
\* findParticleAt's null
NoParticle == << NULL >>

\* setParticlePosition that leaves the velocity
RepositionedKeepingVelocity(parts, id, x, y) ==
    LET n == IndexOfId(parts, id)
    IN  IF n # 0 THEN [parts EXCEPT ![n].position = Vec(x, y)] ELSE parts

\* setParticlePosition
Repositioned(parts, id, x, y) ==
    LET n == IndexOfId(parts, id)
    IN  IF n # 0
        THEN [parts EXCEPT ![n].position = Vec(x, y), ![n].velocity = VecZero]
        ELSE parts

\* dx * dx + dy * dy <= p.radius * p.radius
DiscContains(p, x, y) ==
    LET dx == p.position.x - x
        dy == p.position.y - y
    IN  dx * dx + dy * dy <= p.radius * p.radius

\* findParticleAt from the n-th particle of the table on (Map iteration order)
RECURSIVE FindParticleFrom(_, _, _, _)
FindParticleFrom(parts, n, x, y) ==
    IF n > Len(parts) THEN NoParticle
    ELSE IF DiscContains(parts[n], x, y) THEN parts[n].id
    ELSE FindParticleFrom(parts, n + 1, x, y)

FindParticleAt(parts, x, y) == FindParticleFrom(parts, 1, x, y)

\* the points the pointer is at, the values tried (canvas pixels): two points
\* 8 pixels apart near where node b spawns, and a corner
PointsTried == { Vec(70 * SCALE, 100 * SCALE), Vec(62 * SCALE, 100 * SCALE),
                 Vec(10 * SCALE, 10 * SCALE) }

SetParticlePosition ==
    \E id \in {IdA, IdB, IdC}, point \in PointsTried :
        /\ ApiCall
        /\ particles' = Repositioned(particles, id, point.x, point.y)
        /\ lastOp' = Op("setParticlePosition", id, point, 0)
        /\ UNCHANGED << props, chronos, cortexIds, connections, userPaused, loopVars,
                        tickVars, bufferHistoryVars, kernelVars >>

DoFindParticleAt ==
    \E point \in PointsTried :
        /\ ApiCall
        /\ lastOp' = Op("findParticleAt", 0, point, FindParticleAt(particles, point.x, point.y))
        /\ UNCHANGED << props, particles, chronos, cortexIds, connections, userPaused,
                        loopVars, tickVars, bufferHistoryVars, kernelVars >>

NextPointer ==
    \/ SetParticlePosition
    \/ DoFindParticleAt
    \/ AnimationFrame
    \/ StepReset
    \/ StepSteer
    \/ StepRepulse
    \/ StepAttract
    \/ StepIntegrate
    \/ StepRecord
    \/ EndTick

SpecPointer == InitEngine /\ [][NextPointer]_vars

(***************************************************************************)
(* Properties of the orchestrator.                                          *)
(***************************************************************************)
PhaseOrder ==
    { << "idle", "reset" >>, << "reset", "steer" >>, << "steer", "repulse" >>,
      << "repulse", "attract" >>, << "attract", "integrate" >>,
      << "integrate", "record" >>, << "record", "done" >>, << "done", "idle" >> }

Kinematics(parts) == [n \in 1..Len(parts) |-> << parts[n].position, parts[n].velocity >>]

PhaseFollowsOrder == phase' # phase => << phase, phase' >> \in PhaseOrder

KinematicsOnlyIntegrated ==
    phase \in {"reset", "steer", "repulse", "attract", "record", "done"}
        => Kinematics(particles') = Kinematics(particles)

HistoryOnlyRecorded ==
    phase \in {"reset", "steer", "repulse", "attract", "integrate", "done"}
        => chronos' = chronos

AccelerationsCleared == \A n \in 1..Len(particles) : particles[n].acceleration = VecZero

\* C7: a tick runs its loops in the order reset, steering, repulsion, attraction,
\* gravity + integration + clamp, history record; every acceleration is zero when
\* force accumulation (steering) begins; positions and velocities move only in the
\* integration loop, after all forces of all entities are accumulated, and the
\* history is written only in the record step.
C7_PhasesInOrder ==
    /\ [][PhaseFollowsOrder]_vars
    /\ [](phase = "steer" => AccelerationsCleared)
    /\ [][KinematicsOnlyIntegrated]_vars
    /\ [][HistoryOnlyRecorded]_vars

\* C7 witness: the second tick has gone through all its loops, with two entities
\* and a connection between them, and left a non-zero acceleration.
C7_Witness ==
    /\ phase = "done"
    /\ tickCount = 2
    /\ Len(particles) = 2
    /\ connections = << ConnectionKey(IdA, IdB) >>
    /\ particles[1].acceleration # VecZero
    /\ HasChronos(chronos) /\ chronos.recordedFrames = 2

\* C8: with the history buffer present and recording, a tick writes exactly one
\* frame, and that frame (offset 0) holds the position and velocity every entity
\* has at the end of the tick.
C8_FrameIsEndOfTick ==
    (phase = "done" /\ HasChronos(preTick) /\ preTick.isRecording) =>
        /\ chronos.headIndex = (preTick.headIndex + 1) % preTick.maxFrames
        /\ chronos.recordedFrames = Min(preTick.recordedFrames + 1, preTick.maxFrames)
        /\ \A n \in 1..Len(particles) :
              /\ n <= chronos.entityCount
              /\ LET frame == GetEntityAtFrame(chronos, n - 1, 0)
                 IN  /\ Vec(frame.x, frame.y) = particles[n].position
                     /\ Vec(frame.vx, frame.vy) = particles[n].velocity

\* C9: after pause() and until the next resume() no tick executes (and so no
\* history frame is recorded).
C9_NoTickWhilePaused == userPaused => phase = "idle"

NoDuplicates(S) == \A i \in 1..Len(S), j \in 1..Len(S) : S[i] = S[j] => i = j

\* C10: connect and disconnect are symmetric and idempotent on the connection set.
C10_ConnectSymmetricIdempotent ==
    /\ NoDuplicates(connections)
    /\ \A a \in IdsTried, b \in IdsTried :
          LET connected == ConnectSet(connections, a, b)
              disconnected == DisconnectSet(connected, b, a)
          IN  /\ connected = ConnectSet(connections, b, a)
              /\ ConnectSet(connected, b, a) = connected
              /\ NoDuplicates(connected)
              /\ disconnected = DisconnectSet(connections, a, b)
              /\ DisconnectSet(disconnected, a, b) = disconnected
              /\ \A n \in 1..Len(disconnected) :
                    /\ disconnected[n] # a \o Colon \o b
                    /\ disconnected[n] # b \o Colon \o a
    /\ lastOp.op = "connect" =>
          SeqContains(connections, ConnectionKey(lastOp.arg[2], lastOp.arg[1]))
    /\ lastOp.op = "disconnect" =>
          ~SeqContains(connections, ConnectionKey(lastOp.arg[2], lastOp.arg[1]))

\* C10 witness: disconnect(b, a) has removed the pair that a connect of a and b
\* had added.
C10_Witness ==
    /\ lastOp.op = "disconnect"
    /\ lastOp.arg = << IdB, IdA >>
    /\ connections = << >>
    /\ Len(particles) = 2
    /\ particles[1].isConnected
    /\ particles[2].isConnected

\* the two identities the attraction phase reads out of a key
ParsedBack(key) == SplitColon(key, << >>)

\* C11: a key that connect has put into the connection set splits, in the
\* attraction phase, into exactly the two identities passed to connect; a pair
\* that cannot be parsed back is rejected and so leaves no key in the set.
C11_KeysParseBack ==
    lastOp.op = "connect" =>
        LET key == ConnectionKey(lastOp.arg[1], lastOp.arg[2])
        IN  SeqContains(connections, key) =>
                /\ Len(ParsedBack(key)) = 2
                /\ { ParsedBack(key)[1], ParsedBack(key)[2] } = { lastOp.arg[1], lastOp.arg[2] }

\* one of the two identities the attraction phase reads out of the key is in
\* no entry of the entity table
EndpointAbsent(key, parts) ==
    \/ Len(ParsedBack(key)) < 2
    \/ \E m \in 1..2 : IndexOfId(parts, ParsedBack(key)[m]) = 0

AttractionSkipsAbsent ==
    phase = "attract" =>
        /\ phase' = "integrate"
        /\ connections' = connections
        /\ \A k \in 1..Len(connections) :
              EndpointAbsent(connections[k], particles) =>
                  particles' = AttractAll(particles, SetDelete(connections, connections[k]),
                                          tickEnv)
        /\ (\A k \in 1..Len(connections) : EndpointAbsent(connections[k], particles))
              => particles' = particles

\* C12: in the attraction phase a connection with an endpoint that is not in the
\* entity table is skipped: the tick goes on to integration, the entities end the
\* phase as they would without that connection, and the connection stays in the set.
C12_DanglingSkipped == [][AttractionSkipsAbsent]_vars

\* C12 witness: the attraction phase has run with the connection a:b in the set
\* and only entity b in the table.
C12_Witness ==
    /\ phase = "integrate"
    /\ connections = << ConnectionKey(IdA, IdB) >>
    /\ Len(particles) = 1
    /\ particles[1].id = IdB
    /\ particles[1].isConnected

IdsOfTable(parts) == { parts[n].id : n \in 1..Len(parts) }
IdsOfList(nodes) == { nodes[n].id : n \in 1..Len(nodes) }

TableHoldsList ==
    /\ IdsOfTable(particles) = IdsOfList(props.nodes)
    /\ Len(particles) = Len(props.nodes)

ListSupplied ==
    props'.nodes # props.nodes =>
        \A n \in 1..Len(props'.nodes) :
            LET node == props'.nodes[n]
                was == IndexOfId(particles, node.id)
                now == IndexOfId(particles', node.id)
            IN  /\ now # 0
                /\ particles'[now].mass = node.mass
                /\ particles'[now].color = node.color
                /\ IF was # 0
                   THEN /\ particles'[now].position = particles[was].position
                        /\ particles'[now].velocity = particles[was].velocity
                        /\ particles'[now].acceleration = particles[was].acceleration
                   ELSE /\ particles'[now].velocity = VecZero
                        /\ particles'[now].acceleration = VecZero

\* C13: after an entity list is supplied the entity table holds exactly the
\* identities of the list; a retained identity keeps position, velocity and
\* acceleration and takes the new mass and color; a new identity starts with zero
\* velocity and acceleration; an identity absent from the list is dropped.
C13_TableFollowsList == []TableHoldsList /\ [][ListSupplied]_vars

\* C13 witness: after a tick, the list with b alone (and massless) was supplied:
\* a is dropped, b keeps the velocity and acceleration the tick gave it.
C13_Witness ==
    /\ lastOp.op = "render"
    /\ props.nodes = << NodeBMassless >>
    /\ Len(particles) = 1
    /\ particles[1].id = IdB
    /\ particles[1].mass = 0
    /\ particles[1].velocity # VecZero
    /\ particles[1].acceleration # VecZero

(***************************************************************************)
(* CortexEngine.  Positions and distances are whole pixels; fractions       *)
(* (densities, anxiety, chances, thresholds) are held in hundredths;        *)
(* angles in whole degrees.  The steering vector process returns is named   *)
(* by the return statement that produced it (trigonometry is not computed). *)
(***************************************************************************)
IDLE_DRIFT == 0
HUNTING_TARGET == 1
EVADING_CROWD == 2
ORBITAL_LOCK == 3
ERRANT_WANDER == 4

DECISION_RATE == 15
ANXIETY_DECAY == 90
ANXIETY_ACCUMULATION == 10
SENSOR_RADIUS == 150
SEPARATION_RADIUS == 60
WANDER_CHANCE == 5
RETURN_CHANCE == 10
CROWD_THRESHOLD == 60
CALM_THRESHOLD == 20
\* cortex.memory.length > 20
MEMORY_LIMIT == 20

\* targetId: null
NullTarget == << NULL >>

\* createCognitivePacket; angle is the random wanderAngle
CreateCognitivePacket(angle) ==
    [ state |-> IDLE_DRIFT,
      targetId |-> NullTarget,
      anxietyLevel |-> 0,
      lastDecisionTick |-> 0,
      wanderAngle |-> angle,
      memory |-> << >> ]

DistanceTo(a, b) == VMagnitude(VSubtract(a, b))

\* influence = 1.0 - dist / sensorRadius
Influence(dist) == 100 - (dist * 100) \div SENSOR_RADIUS

\* calculateCrowdDensity reading the neighbours beyond the sensor radius too
RECURSIVE DensityFromAnyRange(_, _, _)
DensityFromAnyRange(entity, neighbors, k) ==
    IF k > Len(neighbors) THEN 0
    ELSE LET dist == DistanceTo(entity.position, neighbors[k].position)
             counted == neighbors[k].id # entity.id /\ dist > 0
         IN  (IF counted THEN (Influence(dist) * Influence(dist)) \div 100 ELSE 0)
                 + DensityFromAnyRange(entity, neighbors, k + 1)

\* the loop of calculateCrowdDensity from the k-th neighbour on
RECURSIVE DensityFrom(_, _, _)
DensityFrom(entity, neighbors, k) ==
    IF k > Len(neighbors) THEN 0
    ELSE LET dist == DistanceTo(entity.position, neighbors[k].position)
             counted == /\ neighbors[k].id # entity.id
                        /\ dist < SENSOR_RADIUS
                        /\ dist > 0
         IN  (IF counted THEN (Influence(dist) * Influence(dist)) \div 100 ELSE 0)
                 + DensityFrom(entity, neighbors, k + 1)

\* Math.min(1.0, density / 5.0)
CalculateCrowdDensity(entity, neighbors) == Min(100, DensityFrom(entity, neighbors, 1) \div 5)

\* findNearestNeighbor: the index of the first nearest other entity, 0 for null
FindNearestNeighbor(entity, neighbors) ==
    LET others == { k \in 1..Len(neighbors) : neighbors[k].id # entity.id }
        dist(k) == DistanceTo(entity.position, neighbors[k].position)
    IN  IF others = {} THEN 0
        ELSE CHOOSE k \in others :
                 \A j \in others : dist(k) < dist(j) \/ (dist(k) = dist(j) /\ k <= j)

\* updateAnxiety that piles the crowd density up without decay or cap
UpdateAnxietyNoDecay(cortex, crowdDensity) ==
    [cortex EXCEPT !.anxietyLevel = @ + (crowdDensity * ANXIETY_ACCUMULATION) \div 100]

UpdateAnxiety(cortex, crowdDensity) ==
    [cortex EXCEPT !.anxietyLevel =
        Min(100, (@ * ANXIETY_DECAY) \div 100 + (crowdDensity * ANXIETY_ACCUMULATION) \div 100)]

\* updateMemory with if in place of while: one number shifted out per call
UpdateMemoryShiftOnce(cortex, position) ==
    [cortex EXCEPT !.memory = LastN(@ \o << position.x, position.y >>, MEMORY_LIMIT + 1)]

UpdateMemory(cortex, position) ==
    [cortex EXCEPT !.memory = LastN(@ \o << position.x, position.y >>, MEMORY_LIMIT)]

\* cortex.targetId === null, the empty string taken for an identity
NoTargetIdNullOnly(cortex) == cortex.targetId = NullTarget

\* !cortex.targetId
NoTargetId(cortex) == cortex.targetId = NullTarget \/ cortex.targetId = << >>

\* evaluateStateTransition that calms down without forgetting its anxiety
EvaluateStateTransitionStillAnxious(cortex, density, nearestNeighbor, chance, angle) ==
    CASE cortex.state = IDLE_DRIFT ->
            IF density > CROWD_THRESHOLD THEN [cortex EXCEPT !.state = EVADING_CROWD]
            ELSE IF chance < WANDER_CHANCE
                 THEN [cortex EXCEPT !.state = ERRANT_WANDER, !.wanderAngle = angle]
                 ELSE cortex
      [] cortex.state = EVADING_CROWD ->
            IF density < CALM_THRESHOLD THEN [cortex EXCEPT !.state = IDLE_DRIFT] ELSE cortex
      [] cortex.state = ERRANT_WANDER ->
            IF chance < RETURN_CHANCE THEN [cortex EXCEPT !.state = IDLE_DRIFT] ELSE cortex
      [] cortex.state = HUNTING_TARGET ->
            IF NoTargetId(cortex) THEN [cortex EXCEPT !.state = IDLE_DRIFT] ELSE cortex
      [] cortex.state = ORBITAL_LOCK ->
            IF NoTargetId(cortex) \/ nearestNeighbor = 0
            THEN [cortex EXCEPT !.state = IDLE_DRIFT, !.targetId = NullTarget]
            ELSE cortex

\* evaluateStateTransition; chance and angle are its two Math.random() draws
EvaluateStateTransition(cortex, density, nearestNeighbor, chance, angle) ==
    CASE cortex.state = IDLE_DRIFT ->
            IF density > CROWD_THRESHOLD THEN [cortex EXCEPT !.state = EVADING_CROWD]
            ELSE IF chance < WANDER_CHANCE
                 THEN [cortex EXCEPT !.state = ERRANT_WANDER, !.wanderAngle = angle]
                 ELSE cortex
      [] cortex.state = EVADING_CROWD ->
            IF density < CALM_THRESHOLD
            THEN [cortex EXCEPT !.state = IDLE_DRIFT, !.anxietyLevel = 0]
            ELSE cortex
      [] cortex.state = ERRANT_WANDER ->
            IF chance < RETURN_CHANCE THEN [cortex EXCEPT !.state = IDLE_DRIFT] ELSE cortex
      [] cortex.state = HUNTING_TARGET ->
            IF NoTargetId(cortex) THEN [cortex EXCEPT !.state = IDLE_DRIFT] ELSE cortex
      [] cortex.state = ORBITAL_LOCK ->
            IF NoTargetId(cortex) \/ nearestNeighbor = 0
            THEN [cortex EXCEPT !.state = IDLE_DRIFT, !.targetId = NullTarget]
            ELSE cortex

\* setTarget that waits for the next decision to change the state
SetTargetQueued(cortex, targetId) == [cortex EXCEPT !.targetId = targetId]

SetTarget(cortex, targetId) ==
    [cortex EXCEPT !.targetId = targetId, !.state = HUNTING_TARGET]

\* setOrbit that locks the state and forgets to store the target
SetOrbitStateOnly(cortex, targetId) == [cortex EXCEPT !.state = ORBITAL_LOCK]

SetOrbit(cortex, targetId) ==
    [cortex EXCEPT !.targetId = targetId, !.state = ORBITAL_LOCK]

ClearTarget(cortex) ==
    [cortex EXCEPT !.targetId = NullTarget, !.state = IDLE_DRIFT]

\* neighbors.find(n => n.id === targetId) found something
TargetFound(neighbors, targetId) == \E k \in 1..Len(neighbors) : neighbors[k].id = targetId

\* executeBehavior that steers towards a target it has not found
ExecuteBehaviorChasingAbsent(entity, cortex, neighbors, jitter) ==
    CASE cortex.state = IDLE_DRIFT -> [cortex |-> cortex, steering |-> "drift"]
      [] cortex.state = EVADING_CROWD -> [cortex |-> cortex, steering |-> "separation"]
      [] cortex.state = ERRANT_WANDER ->
            [cortex |-> [cortex EXCEPT !.wanderAngle = @ + jitter], steering |-> "wander"]
      [] cortex.state = HUNTING_TARGET ->
            [cortex |-> cortex, steering |-> IF NoTargetId(cortex) THEN "zero" ELSE "pursuit"]
      [] cortex.state = ORBITAL_LOCK ->
            [cortex |-> cortex, steering |-> IF NoTargetId(cortex) THEN "zero" ELSE "orbit"]
      [] OTHER -> [cortex |-> cortex, steering |-> "zero"]

\* executeBehavior: the packet afterwards and the steering returned; jitter is
\* the random change of the wander angle
ExecuteBehavior(entity, cortex, neighbors, jitter) ==
    CASE cortex.state = IDLE_DRIFT -> [cortex |-> cortex, steering |-> "drift"]
      [] cortex.state = EVADING_CROWD -> [cortex |-> cortex, steering |-> "separation"]
      [] cortex.state = ERRANT_WANDER ->
            [cortex |-> [cortex EXCEPT !.wanderAngle = @ + jitter], steering |-> "wander"]
      [] cortex.state = HUNTING_TARGET ->
            [cortex |-> cortex,
             steering |-> IF NoTargetId(cortex) \/ ~TargetFound(neighbors, cortex.targetId)
                          THEN "zero" ELSE "pursuit"]
      [] cortex.state = ORBITAL_LOCK ->
            [cortex |-> cortex,
             steering |-> IF NoTargetId(cortex) \/ ~TargetFound(neighbors, cortex.targetId)
                          THEN "zero" ELSE "orbit"]
      [] OTHER -> [cortex |-> cortex, steering |-> "zero"]

\* tick - cortex.lastDecisionTick > DECISION_RATE
DecisionDue(cortex, tick) == tick - cortex.lastDecisionTick > DECISION_RATE

\* process: perception, emotion, throttled decision, action
Process(entity, cortex, neighbors, tick, chance, angle, jitter) ==
    LET crowdDensity == CalculateCrowdDensity(entity, neighbors)
        nearestNeighbor == FindNearestNeighbor(entity, neighbors)
        felt == UpdateMemory(UpdateAnxiety(cortex, crowdDensity), entity.position)
        decided == IF DecisionDue(felt, tick)
                   THEN [EvaluateStateTransition(felt, crowdDensity, nearestNeighbor,
                                                 chance, angle)
                            EXCEPT !.lastDecisionTick = tick]
                   ELSE felt
    IN  ExecuteBehavior(entity, decided, neighbors, jitter)

(***************************************************************************)
(* CortexEngine: the specification.  One entity thinks, tick after tick,    *)
(* among neighbour sets that change from call to call; the mutators are     *)
(* called in between.                                                       *)
(***************************************************************************)
\* ticks the caller counts through
MaxCortexTick == 17

CogEntity(id, x, y) ==
    [id |-> id, position |-> Vec(x, y), velocity |-> VecZero, mass |-> 1]

Thinker == CogEntity(IdA, 0, 0)
IdD == << "d" >>
IdE == << "e" >>
IdF == << "f" >>
SceneAlone == << Thinker >>
SceneFar == << Thinker, CogEntity(IdB, 500, 0) >>
SceneNear == << Thinker, CogEntity(IdB, 30, 0) >>
SceneOnTop == << CogEntity(IdB, 0, 0), Thinker >>
SceneCrowd == << Thinker, CogEntity(IdB, 3, 0), CogEntity(IdD, 0 - 3, 0),
                 CogEntity(IdE, 0, 3), CogEntity(IdF, 0, 0 - 3) >>
ScenesTried == { SceneAlone, SceneFar, SceneNear, SceneOnTop, SceneCrowd }
\* Math.random() in hundredths
ChancesTried == { 2, 7, 50 }
\* random wander angles and jitters, in degrees
AnglesTried == { 0, 90 }
JittersTried == { 0 - 5, 5 }
\* b is in most neighbour sets, c in none; the empty string is a string too
EmptyId == << >>
TargetsTried == { IdB, IdC, EmptyId }

BufferUnused ==
    /\ chronos = << >>
    /\ entities = << >>
    /\ log = << >>
    /\ calls = 0
    /\ slotCall = << >>

TransactionUnused == transaction = << >>

IntegratorUnused ==
    /\ integrator = << >>
    /\ kinetic = << >>
    /\ kineticOps = 0

InitCortex ==
    /\ \E angle \in AnglesTried : packet = CreateCognitivePacket(angle)
    /\ cortexTick = 0
    /\ cortexCalls = 0
    /\ lastOp = Op("createCognitivePacket", 0, << >>, 0)
    /\ BufferUnused
    /\ EngineUnused
    /\ IntegratorUnused
    /\ TransactionUnused

cortexFrame == << chronos, entities, log, calls, slotCall, engineVars, integrator, kinetic,
                  kineticOps, transaction >>

\* the random draws one process call can make: those of evaluateStateTransition
\* when a decision is due, that of behaviorWander when the packet may be wandering
DrawsTried(cortex, tick) ==
    { [chance |-> chance, angle |-> angle, jitter |-> jitter] :
        chance \in IF DecisionDue(cortex, tick) THEN ChancesTried ELSE { 50 },
        angle \in IF DecisionDue(cortex, tick) /\ cortex.state = IDLE_DRIFT
                  THEN AnglesTried ELSE { 0 },
        jitter \in IF cortex.state = ERRANT_WANDER
                      \/ (DecisionDue(cortex, tick) /\ cortex.state = IDLE_DRIFT)
                   THEN JittersTried ELSE { 5 } }

\* one process call of the caller's loop, with its tick, among one of scenes;
\* the caller's counter then moves on by one of steps, for limit + 1 calls
ProcessCall(scenes, steps, limit) ==
    \E neighbors \in scenes, draw \in DrawsTried(packet, cortexTick), step \in steps :
        LET out == Process(Thinker, packet, neighbors, cortexTick, draw.chance, draw.angle,
                           draw.jitter)
        IN  /\ cortexCalls <= limit
            /\ cortexCalls' = cortexCalls + 1
            /\ packet' = out.cortex
            /\ cortexTick' = cortexTick + step
            /\ lastOp' = Op("process", cortexTick, neighbors, out.steering)
            /\ UNCHANGED cortexFrame

DoSetTarget ==
    \E targetId \in TargetsTried :
        /\ packet' = SetTarget(packet, targetId)
        /\ lastOp' = Op("setTarget", targetId, packet, 0)
        /\ UNCHANGED << cortexTick, cortexCalls, cortexFrame >>

DoSetOrbit ==
    \E targetId \in TargetsTried :
        /\ packet' = SetOrbit(packet, targetId)
        /\ lastOp' = Op("setOrbit", targetId, packet, 0)
        /\ UNCHANGED << cortexTick, cortexCalls, cortexFrame >>

DoClearTarget ==
    /\ packet' = ClearTarget(packet)
    /\ lastOp' = Op("clearTarget", 0, packet, 0)
    /\ UNCHANGED << cortexTick, cortexCalls, cortexFrame >>

DoProcess == ProcessCall(ScenesTried, { 1 }, MaxCortexTick)

NextCortex ==
    \/ DoProcess
    \/ DoSetTarget
    \/ DoSetOrbit
    \/ DoClearTarget

SpecCortex == InitCortex /\ [][NextCortex]_vars

(***************************************************************************)
(* CortexEngine: a packet created when the caller's tick counter already    *)
(* stands past the decision rate (a node added to a running hook), thinking *)
(* alone or in a crowd, with no mutator called: its first process call      *)
(* evaluates, and the calls followed reach the evaluation after it.         *)
(***************************************************************************)
InitCortexLate ==
    /\ \E angle \in AnglesTried : packet = CreateCognitivePacket(angle)
    /\ cortexTick = DECISION_RATE + 1
    /\ cortexCalls = 0
    /\ lastOp = Op("createCognitivePacket", 0, << >>, 0)
    /\ BufferUnused
    /\ EngineUnused
    /\ IntegratorUnused
    /\ TransactionUnused

DoProcessLate == ProcessCall({ SceneAlone, SceneCrowd }, { 1 }, MaxCortexTick)

SpecCortexLate == InitCortexLate /\ [][DoProcessLate]_vars

(***************************************************************************)
(* CortexEngine: a caller that thinks for the packet only now and then, its  *)
(* tick counter moving on by one or past the decision rate between calls,    *)
(* with the mutators called in between: a few calls span several decision    *)
(* evaluations.                                                              *)
(***************************************************************************)
\* process calls of the sparse caller, after the first
MaxSparseCalls == 2

DoProcessSparse == ProcessCall({ SceneAlone, SceneNear, SceneCrowd }, { 1, DECISION_RATE + 1 }, MaxSparseCalls)

NextCortexSparse ==
    \/ DoProcessSparse
    \/ DoSetTarget
    \/ DoSetOrbit
    \/ DoClearTarget

SpecCortexSparse == InitCortex /\ [][NextCortexSparse]_vars

(***************************************************************************)
(* Properties of CortexEngine.                                              *)
(***************************************************************************)
\* C14: setTarget(packet, id) leaves the packet in HUNTING_TARGET with targetId =
\* id and clearTarget(packet) leaves it in IDLE_DRIFT with targetId = null, from
\* any prior state and at any tick.
C14_TargetOverridesAtOnce ==
    /\ lastOp.op = "setTarget" =>
          packet.state = HUNTING_TARGET /\ packet.targetId = lastOp.arg
    /\ lastOp.op = "clearTarget" =>
          packet.state = IDLE_DRIFT /\ packet.targetId = NullTarget

\* C14 witness: setTarget was called on an evading packet between two decision
\* evaluations.
C14_Witness ==
    /\ lastOp.op = "setTarget"
    /\ lastOp.pre.state = EVADING_CROWD
    /\ cortexTick > packet.lastDecisionTick + 1
    /\ ~DecisionDue(packet, cortexTick)
    /\ packet.state = HUNTING_TARGET
    /\ packet.targetId = IdB

\* every other entity of the neighbour set is at the sensor radius or beyond
NoOtherInSensorRadius(entity, neighbors) ==
    \A k \in 1..Len(neighbors) :
        neighbors[k].id # entity.id =>
            DistanceTo(entity.position, neighbors[k].position) >= SENSOR_RADIUS

ProcessedWithoutNeighbours ==
    /\ lastOp'.op = "process"
    /\ cortexTick' = cortexTick + 1
    /\ NoOtherInSensorRadius(Thinker, lastOp'.pre)

\* C15: a process call for an entity with no other entity inside its sensor
\* radius never moves its packet from IDLE_DRIFT to EVADING_CROWD.
C15_NoCrowdNoEvasion ==
    [][(ProcessedWithoutNeighbours /\ packet.state = IDLE_DRIFT)
          => packet'.state # EVADING_CROWD]_vars

\* C15 witness: a decision was evaluated for an idle packet with the only other
\* entity beyond the sensor radius, and the packet is still idle.
C15_Witness ==
    /\ lastOp.op = "process"
    /\ lastOp.pre = SceneFar
    /\ packet.lastDecisionTick = lastOp.arg
    /\ lastOp.arg > DECISION_RATE
    /\ packet.state = IDLE_DRIFT

(***************************************************************************)
(* NewtonianIntegrator.  Vector components and speeds are in units of       *)
(* 1/SCALE; dt and masses are whole numbers; damping, the bounce factor and *)
(* minVelocityThreshold are fractions num/den.                              *)
(***************************************************************************)
EULER == "EULER"
SEMI_IMPLICIT_EULER == "SEMI_IMPLICIT_EULER"
VELOCITY_VERLET == "VELOCITY_VERLET"

Fraction(num, den) == [num |-> num, den |-> den]

\* new NewtonianIntegrator(method, maxVelocity, minVelocityThreshold)
NewIntegrator(method, maxVelocity, minVelocityThreshold) ==
    [ method |-> method,
      maxVelocity |-> maxVelocity * SCALE,
      minVelocityThreshold |-> minVelocityThreshold ]

IntegrateEuler(state, dt) ==
    LET position == VAdd(state.position, VMultiply(state.velocity, dt, 1))
        velocity == VAdd(state.velocity, VMultiply(state.acceleration, dt, 1))
    IN  [state EXCEPT !.position = position, !.velocity = velocity]

IntegrateSemiImplicitEuler(state, dt) ==
    LET velocity == VAdd(state.velocity, VMultiply(state.acceleration, dt, 1))
        position == VAdd(state.position, VMultiply(velocity, dt, 1))
    IN  [state EXCEPT !.position = position, !.velocity = velocity]

IntegrateVerlet(state, dt) ==
    LET positionDelta == VAdd(VMultiply(state.velocity, dt, 1),
                              VMultiply(state.acceleration, dt * dt, 2))
        velocity == VAdd(state.velocity, VMultiply(state.acceleration, dt, 1))
    IN  [state EXCEPT !.position = VAdd(@, positionDelta), !.velocity = velocity]

ApplyDamping(state) ==
    [state EXCEPT !.velocity = VMultiply(@, state.damping.num, state.damping.den)]

\* clampVelocity that limits each component instead of the magnitude
ClampVelocityByComponent(ig, state) ==
    [state EXCEPT !.velocity = Vec(Max(0 - ig.maxVelocity, Min(ig.maxVelocity, @.x)),
                                   Max(0 - ig.maxVelocity, Min(ig.maxVelocity, @.y)))]

ClampVelocity(ig, state) ==
    IF VMagnitude(state.velocity) > ig.maxVelocity
    THEN [state EXCEPT !.velocity = VNormalizeTimes(@, ig.maxVelocity, 1)]
    ELSE state

\* speed < minVelocityThreshold
ApplyVelocityThreshold(ig, state) ==
    IF VMagnitude(state.velocity) * ig.minVelocityThreshold.den
           < ig.minVelocityThreshold.num * SCALE
    THEN [state EXCEPT !.velocity = VecZero]
    ELSE state

IntegratorResetAcceleration(state) == [state EXCEPT !.acceleration = VecZero]

IntegrateStep(ig, state, dt) ==
    CASE ig.method = EULER -> IntegrateEuler(state, dt)
      [] ig.method = SEMI_IMPLICIT_EULER -> IntegrateSemiImplicitEuler(state, dt)
      [] ig.method = VELOCITY_VERLET -> IntegrateVerlet(state, dt)
      [] OTHER -> state

\* integrate without the mass validation
IntegrateAnyMass(ig, state, dt) ==
    IntegratorResetAcceleration(
        ApplyVelocityThreshold(ig, ClampVelocity(ig, ApplyDamping(IntegrateStep(ig, state, dt)))))

Integrate(ig, state, dt) ==
    IF state.mass <= 0 THEN IntegratorResetAcceleration(state)
    ELSE IntegratorResetAcceleration(
             ApplyVelocityThreshold(ig,
                 ClampVelocity(ig, ApplyDamping(IntegrateStep(ig, state, dt)))))

ApplyForce(state, force) ==
    IF state.mass <= 0 THEN state
    ELSE [state EXCEPT !.acceleration = VAdd(@, VDivide(force, state.mass))]

ApplyImpulse(state, impulse) ==
    IF state.mass <= 0 THEN state
    ELSE [state EXCEPT !.velocity = VAdd(@, VDivide(impulse, state.mass))]

\* constrain that puts the position back and leaves the velocity as it was
ConstrainKeepingVelocity(state, width, height, bounceFactor) ==
    LET radius == state.radius
        left == IF state.position.x < radius
                THEN [state EXCEPT !.position = Vec(radius, @.y)] ELSE state
        right == IF left.position.x > width * SCALE - radius
                 THEN [left EXCEPT !.position = Vec(width * SCALE - radius, @.y)] ELSE left
        top == IF right.position.y < radius
               THEN [right EXCEPT !.position = Vec(@.x, radius)] ELSE right
    IN  IF top.position.y > height * SCALE - radius
        THEN [top EXCEPT !.position = Vec(@.x, height * SCALE - radius)]
        ELSE top

\* constrain(state, width, height, bounceFactor): the four boundaries in turn
Constrain(state, width, height, bounceFactor) ==
    LET radius == state.radius
        Bounced(v) == Quot(v * (0 - bounceFactor.num), bounceFactor.den)
        left == IF state.position.x < radius
                THEN [state EXCEPT !.position = Vec(radius, @.y),
                                   !.velocity = Vec(Bounced(@.x), @.y)]
                ELSE state
        right == IF left.position.x > width * SCALE - radius
                 THEN [left EXCEPT !.position = Vec(width * SCALE - radius, @.y),
                                   !.velocity = Vec(Bounced(@.x), @.y)]
                 ELSE left
        top == IF right.position.y < radius
               THEN [right EXCEPT !.position = Vec(@.x, radius),
                                  !.velocity = Vec(@.x, Bounced(@.y))]
               ELSE right
    IN  IF top.position.y > height * SCALE - radius
        THEN [top EXCEPT !.position = Vec(@.x, height * SCALE - radius),
                         !.velocity = Vec(@.x, Bounced(@.y))]
        ELSE top

(***************************************************************************)
(* NewtonianIntegrator: the specification.  One kinetic state is handed to  *)
(* the integrator's operations, in any order.                               *)
(***************************************************************************)
\* calls on the integrator the model follows
MaxKineticOps == 3

MethodsTried == { EULER, SEMI_IMPLICIT_EULER, VELOCITY_VERLET }
\* the defaults (50, 0.001), and a low speed limit with a high rest threshold
IntegratorsTried ==
    { NewIntegrator(method, 50, Fraction(1, 1000)) : method \in MethodsTried }
        \cup { NewIntegrator(method, 4, Fraction(1, 2)) : method \in MethodsTried }

Kinetic(velocity, acceleration, mass) ==
    [ position |-> Vec(30 * SCALE, 100 * SCALE),
      velocity |-> velocity,
      acceleration |-> acceleration,
      mass |-> mass,
      damping |-> Fraction(9, 10),
      radius |-> 20 * SCALE ]

MassesTried == { 0 - 1, 0, 1, 2 }
KineticStatesTried ==
    { Kinetic(velocity, acceleration, mass) :
        velocity \in { VecZero, Vec(3, 0), Vec(0 - 3 * SCALE, 4 * SCALE) },
        acceleration \in { VecZero, Vec(SCALE, 2 * SCALE) },
        mass \in MassesTried }
DtTried == { 1, 2 }
ForcesTried == { Vec(0 - 6 * SCALE, 3 * SCALE), Vec(2 * SCALE, 0) }
\* constrain(state, width, height) with the default bounce factor 0.5
\* the last box is narrower than the state's diameter
BoundsTried == { [width |-> 200, height |-> 200], [width |-> 100, height |-> 100],
                 [width |-> 30, height |-> 200] }

CortexUnused ==
    /\ packet = << >>
    /\ cortexTick = 0
    /\ cortexCalls = 0

InitIntegrator ==
    /\ integrator \in IntegratorsTried
    /\ kinetic \in KineticStatesTried
    /\ kineticOps = 0
    /\ lastOp = Op("new", 0, << >>, 0)
    /\ BufferUnused
    /\ EngineUnused
    /\ CortexUnused
    /\ TransactionUnused

integratorFrame == << chronos, entities, log, calls, slotCall, engineVars, packet, cortexTick,
                      cortexCalls, integrator, transaction >>

KineticCall == kineticOps < MaxKineticOps /\ kineticOps' = kineticOps + 1

DoIntegrate ==
    \E dt \in DtTried :
        /\ KineticCall
        /\ kinetic' = Integrate(integrator, kinetic, dt)
        /\ lastOp' = Op("integrate", dt, kinetic, 0)
        /\ UNCHANGED integratorFrame

DoApplyForce ==
    \E force \in ForcesTried :
        /\ KineticCall
        /\ kinetic' = ApplyForce(kinetic, force)
        /\ lastOp' = Op("applyForce", force, kinetic, 0)
        /\ UNCHANGED integratorFrame

DoApplyImpulse ==
    \E impulse \in ForcesTried :
        /\ KineticCall
        /\ kinetic' = ApplyImpulse(kinetic, impulse)
        /\ lastOp' = Op("applyImpulse", impulse, kinetic, 0)
        /\ UNCHANGED integratorFrame

DoConstrain ==
    \E box \in BoundsTried :
        /\ KineticCall
        /\ kinetic' = Constrain(kinetic, box.width, box.height, Fraction(1, 2))
        /\ lastOp' = Op("constrain", box, kinetic, 0)
        /\ UNCHANGED integratorFrame

NextIntegrator ==
    \/ DoIntegrate
    \/ DoApplyForce
    \/ DoApplyImpulse
    \/ DoConstrain

SpecIntegrator == InitIntegrator /\ [][NextIntegrator]_vars

(***************************************************************************)
(* Properties of NewtonianIntegrator.                                       *)
(***************************************************************************)
\* C16: for a kinetic state with mass <= 0, integrate leaves position and
\* velocity unchanged and sets acceleration to zero, and applyForce and
\* applyImpulse leave the whole state unchanged.
C16_MasslessUntouched ==
    /\ (lastOp.op = "integrate" /\ lastOp.pre.mass <= 0) =>
          /\ kinetic.position = lastOp.pre.position
          /\ kinetic.velocity = lastOp.pre.velocity
          /\ kinetic.acceleration = VecZero
    /\ (lastOp.op \in {"applyForce", "applyImpulse"} /\ lastOp.pre.mass <= 0) =>
          kinetic = lastOp.pre

\* C16 witness: integrate ran on a state of negative mass that was moving and
\* had an acceleration.
C16_Witness ==
    /\ lastOp.op = "integrate"
    /\ lastOp.pre.mass < 0
    /\ lastOp.pre.velocity # VecZero
    /\ lastOp.pre.acceleration # VecZero
    /\ kinetic.acceleration = VecZero
    /\ kinetic.velocity # VecZero

(***************************************************************************)
(* Further properties of the orchestrator.                                  *)
(***************************************************************************)
MasslessStandStill ==
    phase \in {"reset", "steer", "repulse", "attract", "integrate", "record", "done"} =>
        \A n \in 1..Len(particles) :
            particles[n].mass <= 0 =>
                /\ particles'[n].position = particles[n].position
                /\ particles'[n].velocity = particles[n].velocity

\* C17: in an orchestrator tick an entity with mass <= 0 is a no-op: no step of
\* the tick changes its position or its velocity, so both are after the tick what
\* they were before it.
C17_MasslessTickNoOp == [][MasslessStandStill]_vars

Displacement(n) == VSubtract(particles'[n].position, particles[n].position)
Cross(v, w) == v.x * w.y - v.y * w.x

\* the boundary clamp of phase C left the entity where the integration put it
InsideBounds(p, env) ==
    /\ p.radius < p.position.x /\ p.position.x < env.canvasWidth * SCALE - p.radius
    /\ p.radius < p.position.y /\ p.position.y < env.canvasHeight * SCALE - p.radius

\* phase C is about to run for two entities of one mass, no connections, no
\* gravity, no velocity lost to damping, whose velocities are equal and opposite
\* along the line joining them (at rest, for one)
EqualPairToIntegrate ==
    /\ phase = "integrate"
    /\ Len(particles) = 2
    /\ particles[1].mass = particles[2].mass
    /\ particles[1].mass > 0
    /\ connections = << >>
    /\ tickEnv.settings.gravityNum = 0
    /\ tickEnv.settings.dampingNum = tickEnv.settings.dampingDen
    /\ VAdd(particles[1].velocity, particles[2].velocity) = VecZero
    /\ Cross(particles[1].velocity, VSubtract(particles[1].position, particles[2].position)) = 0
    /\ InsideBounds(particles'[1], tickEnv)
    /\ InsideBounds(particles'[2], tickEnv)

EqualAndOpposite ==
    /\ VAdd(Displacement(1), Displacement(2)) = VecZero
    /\ Cross(Displacement(1), VSubtract(particles[1].position, particles[2].position)) = 0

PairMovesApartEqually == EqualPairToIntegrate => EqualAndOpposite

\* the steering impulses of this tick (what phase 0 added)
Steered(n) == lastOp.pre[n]

PairMovesBySteeringAndRepulsion ==
    EqualPairToIntegrate =>
        /\ lastOp.op = "steer"
        /\ VAdd(Displacement(1), Displacement(2)) = VAdd(Steered(1), Steered(2))
        /\ (Steered(1) = VecZero /\ Steered(2) = VecZero) => EqualAndOpposite

\* phase A for a table of two: a gets force/mass_a, b loses force/mass_b, and the
\* mass-weighted sum of the two is zero up to the remainders of the two divisions
RepulsionEqualAndOpposite ==
    (phase = "repulse" /\ Len(particles) = 2) =>
        LET force == CalculateRepulsion(particles[1], particles[2], tickEnv)
            m1 == particles[1].mass
            m2 == particles[2].mass
            d1 == VSubtract(particles'[1].acceleration, particles[1].acceleration)
            d2 == VSubtract(particles'[2].acceleration, particles[2].acceleration)
            slack == Max(m1 - 1, 0) + Max(m2 - 1, 0)
        IN  /\ d1 = VDivide(force, m1)
            /\ d2 = VSubtract(VecZero, VDivide(force, m2))
            /\ Abs(m1 * d1.x + m2 * d2.x) <= slack
            /\ Abs(m1 * d1.y + m2 * d2.y) <= slack
            /\ m1 = m2 => VAdd(d1, d2) = VecZero

BesidesPlayback(c) == [c EXCEPT !.playbackIndex = 0]
\* everything of an entity but position and velocity
BesidesKinematics(e) == [e EXCEPT !.position = VecZero, !.velocity = VecZero]

ReplayChangesOnly ==
    lastOp'.op = "replayFrame" =>
        /\ BesidesPlayback(chronos') = BesidesPlayback(chronos)
        /\ Len(entities') = Len(lastOp'.pre)
        /\ \A n \in 1..Len(entities') :
              BesidesKinematics(entities'[n]) = BesidesKinematics(lastOp'.pre[n])
        /\ UNCHANGED << log, calls, slotCall >>
        /\ chronos.recordedFrames = 0 =>
              (chronos' = chronos /\ entities' = lastOp'.pre)

\* C19: replayFrame changes only the position and velocity of the supplied
\* entities and the playback pointer: acceleration, mass, damping and radius of
\* every entity, and headIndex, recordedFrames, the recording flag and the stored
\* frames, are unchanged; with recordedFrames = 0 it changes nothing at all.
C19_ReplayChangesOnlyKinematics == [][ReplayChangesOnly]_vars

\* C19 witness: replayFrame has moved an entity and the playback pointer, and the
\* entity has the acceleration it was supplied with, not the recorded one.
C19_Witness ==
    /\ lastOp.op = "replayFrame"
    /\ chronos.recordedFrames > 0
    /\ chronos.playbackIndex # chronos.headIndex
    /\ Len(entities) > 0
    /\ Len(LoggedBack(0)) > 0
    /\ entities[1].position # lastOp.pre[1].position
    /\ entities[1].acceleration = lastOp.pre[1].acceleration
    /\ entities[1].acceleration # LoggedBack(0)[1].acceleration

\* the stored frames
Frames(c) == c.buffer

RecordingSwitchedOrPausedRecord ==
    /\ lastOp'.op \in {"pause", "resume", "toggleRecording"} =>
          /\ chronos'.headIndex = chronos.headIndex
          /\ chronos'.recordedFrames = chronos.recordedFrames
          /\ Frames(chronos') = Frames(chronos)
    /\ (lastOp'.op = "recordFrame" /\ ~chronos.isRecording) =>
          /\ chronos'.headIndex = chronos.headIndex
          /\ chronos'.recordedFrames = chronos.recordedFrames
          /\ Frames(chronos') = Frames(chronos)
    /\ (lastOp'.op = "recordFrame" /\ chronos.isRecording) =>
          /\ chronos'.headIndex = (chronos.headIndex + 1) % chronos.maxFrames
          /\ \A n \in 1..Min(Len(lastOp'.pre), chronos.entityCount) :
                LET entityOffset == EntityOffset(chronos, chronos.headIndex, n - 1)
                IN  /\ ReadFloat(chronos', entityOffset + OFFSET_X)
                          = Fround(lastOp'.pre[n].position.x)
                    /\ ReadFloat(chronos', entityOffset + OFFSET_VY)
                          = Fround(lastOp'.pre[n].velocity.y)

ReplayedWhilePaused ==
    /\ lastOp.op = "replayFrame"
    /\ lastOp.arg >= 0
    /\ ~chronos.isRecording
    /\ chronos.recordedFrames > 0

PausedReplayRestores ==
    ReplayedWhilePaused =>
        LET frame == LoggedBack(Min(lastOp.arg, chronos.recordedFrames - 1))
        IN  \A n \in 1..Min(Len(entities), chronos.entityCount) :
                n <= Len(frame) => HoldsFloat32Of(entities[n], frame[n])

\* C20: while recording is paused recordFrame leaves headIndex, recordedFrames
\* and every stored frame unchanged, and replayFrame still restores the frames
\* recorded before the pause; pause, resume and toggle leave the head where it
\* was, and a recordFrame while recording writes at that head slot.
C20_PausedRecordingKeepsFrames ==
    []PausedReplayRestores /\ [][RecordingSwitchedOrPausedRecord]_vars

\* C20 witness: with recording paused and every slot recorded, recordFrame has
\* been called and has left the buffer as it was.
C20_Witness ==
    /\ lastOp.op = "recordFrame"
    /\ ~chronos.isRecording
    /\ chronos.recordedFrames = chronos.maxFrames
    /\ Len(lastOp.pre) > 0
    /\ ReadFloat(chronos, EntityOffset(chronos, chronos.headIndex, 0) + OFFSET_X)
          # Fround(lastOp.pre[1].position.x)

ClearResets ==
    lastOp'.op = "clear" =>
        /\ \A k \in DOMAIN chronos'.buffer : chronos'.buffer[k] = 0
        /\ DOMAIN chronos'.buffer = DOMAIN chronos.buffer
        /\ chronos'.headIndex = 0
        /\ chronos'.playbackIndex = 0
        /\ chronos'.recordedFrames = 0

\* with nothing recorded replayFrame leaves the entities it was given as they
\* were and getTrail returns no position, for every input tried
NothingToReturn ==
    chronos.recordedFrames = 0 =>
        /\ \A k \in DOMAIN chronos.buffer : chronos.buffer[k] = 0
        /\ lastOp.op = "replayFrame" => entities = lastOp.pre
        /\ lastOp.op = "getTrail" => lastOp.ret = << >>
        /\ \A framesBack \in Offsets, ents \in ReplayLists :
              ReplayedEntities(chronos, framesBack, ents) = ents
        /\ \A entityIndex \in EntityIndexesTried, trailLength \in TrailLengthsTried :
              GetTrail(chronos, entityIndex, trailLength) = << >>

\* C21: clear() sets every buffer slot to 0 and headIndex, the playback pointer
\* and recordedFrames to 0; from then until a frame is recorded, replayFrame and
\* getTrail return nothing (no float of the buffer is left to return).
C21_ClearForgets == []NothingToReturn /\ [][ClearResets]_vars

\* C21 witness: clear() has been called on a buffer whose every slot was recorded.
C21_Witness ==
    /\ lastOp.op = "clear"
    /\ lastOp.ret = MaxFrames
    /\ chronos.recordedFrames = 0
    /\ chronos.headIndex = 0

GotTrail == lastOp.op = "getTrail"

\* C22 as stated: getTrail(entityIndex, n) with entityIndex < entityCount returns
\* exactly min(n, recordedFrames) positions, the i-th the position the entity was
\* recorded with i calls before the last one; with entityIndex >= entityCount it
\* returns the empty list.
C22_TrailOfRecordedPositions ==
    GotTrail =>
        LET entityIndex == lastOp.arg[1]
            trail == lastOp.ret
        IN  IF entityIndex < chronos.entityCount
            THEN /\ Len(trail) = Min(lastOp.arg[2], chronos.recordedFrames)
                 /\ \A i \in 0..(Len(trail) - 1) :
                       entityIndex + 1 <= Len(LoggedBack(i)) =>
                           trail[i + 1] = LoggedBack(i)[entityIndex + 1].position
            ELSE trail = << >>

\* C22 amended: the i-th position is the Float32 rounding of the position the
\* entity was recorded with i calls before the last one (for an entity that was
\* in that call's array).
C22_TrailOfFloat32Positions ==
    GotTrail =>
        LET entityIndex == lastOp.arg[1]
            trail == lastOp.ret
        IN  IF entityIndex < chronos.entityCount
            THEN /\ Len(trail) = Min(lastOp.arg[2], chronos.recordedFrames)
                 /\ \A i \in 0..(Len(trail) - 1) :
                       entityIndex + 1 <= Len(LoggedBack(i)) =>
                           LET recorded == LoggedBack(i)[entityIndex + 1].position
                           IN  trail[i + 1] = Vec(Fround(recorded.x), Fround(recorded.y))
            ELSE trail = << >>

\* C22 witness: after the head wrapped, getTrail was asked for more positions of
\* the last entity than are recorded and returned one per recorded frame, the
\* newest first.
C22_Witness ==
    /\ GotTrail
    /\ lastOp.arg = << EntityCount - 1, MaxFrames + 1 >>
    /\ calls > MaxFrames
    /\ Len(lastOp.ret) = MaxFrames
    /\ EntityCount <= Len(LoggedBack(0))
    /\ EntityCount <= Len(LoggedBack(1))
    /\ lastOp.ret[1].x = Fround(LoggedBack(0)[EntityCount].position.x)
    /\ lastOp.ret[2].x = Fround(LoggedBack(1)[EntityCount].position.x)
    /\ lastOp.ret[1] # lastOp.ret[2]

(***************************************************************************)
(* Properties of the pointer calls.                                         *)
(***************************************************************************)
RepositionOnly ==
    lastOp'.op = "setParticlePosition" =>
        LET n == IndexOfId(particles, lastOp'.arg)
        IN  /\ Len(particles') = Len(particles)
            /\ \A m \in 1..Len(particles) :
                  IF m = n
                  THEN particles'[m] = [particles[m] EXCEPT !.position = lastOp'.pre,
                                                            !.velocity = VecZero]
                  ELSE particles'[m] = particles[m]
            /\ connections' = connections
            /\ cortexIds' = cortexIds
            /\ chronos' = chronos
            /\ n = 0 => particles' = particles

\* C23: repositioning an existing entity sets its position to the given
\* coordinates and its velocity to zero and changes no other entity, no
\* connection and no cognitive packet; repositioning an unknown identity changes
\* nothing.
C23_RepositionOnlyThatEntity == [][RepositionOnly]_<< ops, vars >>

\* C23 witness: after a tick that set both entities moving, entity a has been put
\* at a point: it is at rest there and b still moves.
C23_Witness ==
    /\ lastOp.op = "setParticlePosition"
    /\ lastOp.arg = IdA
    /\ Len(particles) = 2
    /\ particles[1].id = IdA
    /\ particles[1].position = lastOp.pre
    /\ particles[1].velocity = VecZero
    /\ particles[2].velocity # VecZero
    /\ tickCount > 0

SquaredDistance(p, point) ==
    (p.position.x - point.x) * (p.position.x - point.x)
        + (p.position.y - point.y) * (p.position.y - point.y)

\* the entities whose disc holds the point
Hit(point) == { n \in 1..Len(particles) : DiscContains(particles[n], point.x, point.y) }

\* C24: the hit-test returns none exactly when no entity's disc holds the point,
\* and otherwise the identity of the nearest entity among those whose disc holds
\* the point.
C24_HitTestNearest ==
    lastOp.op = "findParticleAt" =>
        IF Hit(lastOp.pre) = {}
        THEN lastOp.ret = NoParticle
        ELSE \E n \in Hit(lastOp.pre) :
                /\ lastOp.ret = particles[n].id
                /\ \A m \in Hit(lastOp.pre) :
                      SquaredDistance(particles[n], lastOp.pre)
                          <= SquaredDistance(particles[m], lastOp.pre)

\* C25: in every state reachable by process, setTarget, setOrbit and clearTarget
\* calls, among any of the neighbour sets, the packet's anxiety level lies in
\* [0, 1] (0..100 hundredths).
C25_AnxietyWithinUnit == packet.anxietyLevel >= 0 /\ packet.anxietyLevel <= 100

\* C25 witness: after a run of process calls in the crowd, with a mutator called
\* on the way, the anxiety has climbed past one half.
C25_Witness ==
    /\ lastOp.op = "process"
    /\ lastOp.pre = SceneCrowd
    /\ packet.state = HUNTING_TARGET
    /\ packet.anxietyLevel >= 50

\* the process call just made evaluated the transitions
Evaluated == lastOp'.op = "process" /\ packet'.lastDecisionTick # packet.lastDecisionTick

\* an evaluation that follows an earlier one comes DECISION_RATE ticks after it,
\* and a process call that does not evaluate leaves the state as it was
ThrottledEvery15 ==
    /\ (Evaluated /\ packet.lastDecisionTick > 0) =>
           packet'.lastDecisionTick - packet.lastDecisionTick = DECISION_RATE
    /\ (lastOp'.op = "process" /\ packet'.state # packet.state) => Evaluated

\* C26: transition evaluation is throttled to once every 15 ticks: consecutive
\* evaluations of a packet processed on every tick are exactly 15 ticks apart,
\* and inside process the state changes only on an evaluation tick.
C26_EvaluatedEvery15Ticks == [][ThrottledEvery15]_<< cortexTick, packet, vars >>

\* a change of state inside process follows one of the six arrows
ProcessArrow ==
    \/ packet.state = IDLE_DRIFT /\ packet'.state = EVADING_CROWD
    \/ packet.state = IDLE_DRIFT /\ packet'.state = ERRANT_WANDER
    \/ packet.state = EVADING_CROWD /\ packet'.state = IDLE_DRIFT /\ packet'.anxietyLevel = 0
    \/ packet.state = ERRANT_WANDER /\ packet'.state = IDLE_DRIFT
    \/ packet.state = HUNTING_TARGET /\ packet'.state = IDLE_DRIFT
    \/ /\ packet.state = ORBITAL_LOCK
       /\ packet'.state = IDLE_DRIFT
       /\ packet'.targetId = NullTarget

StateMachineArrows ==
    /\ (lastOp'.op = "process" /\ packet'.state # packet.state) => ProcessArrow
    /\ (packet'.state = HUNTING_TARGET /\ packet.state # HUNTING_TARGET) =>
           lastOp'.op = "setTarget"
    /\ (packet'.state = ORBITAL_LOCK /\ packet.state # ORBITAL_LOCK) =>
           lastOp'.op = "setOrbit"

\* C27: process changes the state only along IDLE_DRIFT -> EVADING_CROWD,
\* IDLE_DRIFT -> ERRANT_WANDER, EVADING_CROWD -> IDLE_DRIFT (anxiety set to 0),
\* ERRANT_WANDER -> IDLE_DRIFT, HUNTING_TARGET -> IDLE_DRIFT and ORBITAL_LOCK ->
\* IDLE_DRIFT (target cleared); HUNTING_TARGET and ORBITAL_LOCK are entered only
\* through setTarget and setOrbit.
C27_StateMachineArrows == [][StateMachineArrows]_<< cortexTick, packet, vars >>

\* C27 witness: the second decision evaluation of a run took the packet out of
\* HUNTING_TARGET, which it had entered by setTarget with the empty string.
C27_Witness ==
    /\ lastOp.op = "process"
    /\ lastOp.arg = packet.lastDecisionTick
    /\ packet.lastDecisionTick >= 2 * (DECISION_RATE + 1)
    /\ packet.state = IDLE_DRIFT
    /\ packet.targetId = EmptyId

\* a process call at the packet's next decision evaluation, among neighbors and
\* with these draws, takes the packet out of its state
LeavesBy(cortex, neighbors, chance, angle) ==
    Process(Thinker, cortex, neighbors, cortex.lastDecisionTick + DECISION_RATE + 1,
            chance, angle, 5).cortex.state # cortex.state

\* some neighbour set and draws take the packet out of its state by process alone
CanLeave ==
    \E neighbors \in ScenesTried, chance \in ChancesTried, angle \in AnglesTried :
        LeavesBy(packet, neighbors, chance, angle)

\* the packet hunts a target whose identity is a non-empty string
HuntingATarget ==
    packet.state = HUNTING_TARGET /\ packet.targetId \notin { NullTarget, EmptyId }

\* process keeps such a packet hunting that target
HuntingStays ==
    (lastOp'.op = "process" /\ HuntingATarget) =>
        (packet'.state = HUNTING_TARGET /\ packet'.targetId = packet.targetId)

\* C28: no behaviour state is terminal: whatever state the packet is in, some
\* run of process calls (some neighbour set and random draws, no mutator called)
\* takes it out of that state.
C28_NoStateTerminal == CanLeave

\* C28 as the code has it: process alone takes the packet out of IDLE_DRIFT,
\* EVADING_CROWD, ERRANT_WANDER and ORBITAL_LOCK, and out of HUNTING_TARGET when
\* the target is null or the empty string; a packet hunting a target with a
\* non-empty identity stays in HUNTING_TARGET through every process call, until a
\* mutator is called.
C28_OnlyHuntingHolds ==
    /\ [](CanLeave \/ HuntingATarget)
    /\ [][HuntingStays]_<< cortexTick, packet, vars >>

\* C28 witness: a decision evaluation among no neighbours has left the packet
\* hunting b, and no neighbour set or draw would take it out.
C28_Witness ==
    /\ lastOp.op = "process"
    /\ lastOp.pre = SceneAlone
    /\ lastOp.arg = packet.lastDecisionTick
    /\ packet.lastDecisionTick > 0
    /\ packet.state = HUNTING_TARGET
    /\ packet.targetId = IdB
    /\ ~CanLeave

\* a decision evaluation of a packet in ORBITAL_LOCK whose target is not among
\* the neighbours takes it to IDLE_DRIFT and clears the target
OrbitEndsWithoutTarget ==
    (/\ Evaluated
     /\ packet.state = ORBITAL_LOCK
     /\ ~TargetFound(lastOp'.pre, packet.targetId)) =>
        (packet'.state = IDLE_DRIFT /\ packet'.targetId = NullTarget)

\* C29: a packet in ORBITAL_LOCK whose target identity is not among the
\* neighbour set moves, at the next decision evaluation, to IDLE_DRIFT with
\* targetId = null, whether or not other neighbours exist.
C29_OrbitEndsWhenTargetGone == [][OrbitEndsWithoutTarget]_<< cortexTick, packet, vars >>

\* cortex is bound to a target and cannot resolve it among neighbors
Unresolved(cortex, neighbors) ==
    /\ cortex.state \in { HUNTING_TARGET, ORBITAL_LOCK }
    /\ NoTargetId(cortex) \/ ~TargetFound(neighbors, cortex.targetId)

\* a process call whose behaviour step runs with an unresolved target returns
\* zero; when no decision is evaluated in the call, the behaviour step is all
\* that could touch the state and the target, and they stay
ZeroWhenUnresolved ==
    lastOp'.op = "process" =>
        /\ Unresolved(packet', lastOp'.pre) => lastOp'.ret = "zero"
        /\ (Unresolved(packet, lastOp'.pre) /\ ~Evaluated) =>
               /\ lastOp'.ret = "zero"
               /\ packet'.state = packet.state
               /\ packet'.targetId = packet.targetId

\* C30: in HUNTING_TARGET and ORBITAL_LOCK, whenever targetId is null (or empty)
\* or names an identity absent from the neighbour set, process returns the zero
\* steering vector and its behaviour step leaves the state and the target alone.
C30_ZeroSteeringWhenUnresolved == [][ZeroWhenUnresolved]_<< cortexTick, packet, vars >>

\* C30 witness: a process call that evaluated nothing returned zero to a packet
\* orbiting c, which is not among its neighbours, and left it orbiting c.
C30_Witness ==
    /\ lastOp.op = "process"
    /\ lastOp.pre = SceneNear
    /\ lastOp.arg # packet.lastDecisionTick
    /\ lastOp.ret = "zero"
    /\ packet.state = ORBITAL_LOCK
    /\ packet.targetId = IdC

(***************************************************************************)
(* CortexEngine: a thinker that moves between process calls; log keeps the   *)
(* positions it was at, call by call.                                        *)
(***************************************************************************)
\* process calls of the moving thinker, after the first
MaxMemoryCalls == 11

PositionsTried == { Vec(1, 2), Vec(3, 4) }

DoProcessMoving ==
    \E position \in PositionsTried, draw \in DrawsTried(packet, cortexTick) :
        LET entity == CogEntity(IdA, position.x, position.y)
            out == Process(entity, packet, << entity >>, cortexTick, draw.chance, draw.angle,
                           draw.jitter)
        IN  /\ cortexCalls <= MaxMemoryCalls
            /\ cortexCalls' = cortexCalls + 1
            /\ packet' = out.cortex
            /\ cortexTick' = cortexTick + 1
            /\ log' = Append(log, position)
            /\ lastOp' = Op("process", cortexTick, << entity >>, out.steering)
            /\ UNCHANGED << chronos, entities, calls, slotCall, engineVars, integrator,
                            kinetic, kineticOps, transaction >>

SpecMemory == InitCortex /\ [][DoProcessMoving]_vars

\* positions as the flat array [x1, y1, x2, y2, ...]
RECURSIVE FlatPositions(_)
FlatPositions(positions) ==
    IF positions = << >> THEN << >>
    ELSE << Head(positions).x, Head(positions).y >> \o FlatPositions(Tail(positions))

\* C31: the position memory never holds more than 10 positions (20 numbers),
\* always holds whole x,y pairs, and after any number of process calls holds the
\* most recent min(calls, 10) positions in order, the oldest evicted first.
C31_MemoryIsLastTenPositions ==
    /\ Len(packet.memory) <= MEMORY_LIMIT
    /\ Len(packet.memory) % 2 = 0
    /\ packet.memory = FlatPositions(LastN(log, MEMORY_LIMIT \div 2))

\* C31 witness: after more than ten process calls the first position the thinker
\* was at has been evicted, and the memory holds positions that differ.
C31_Witness ==
    /\ Len(log) > MEMORY_LIMIT \div 2
    /\ Len(packet.memory) = MEMORY_LIMIT
    /\ log[1] # log[Len(log) - MEMORY_LIMIT \div 2 + 1]
    /\ packet.memory[1] # packet.memory[3]

\* the identities in the entity table
ParticleIds == { particles[n].id : n \in 1..Len(particles) }

\* C32: the cognitive-packet table holds a packet for an identity only while that
\* entity is in the entity table: packets are created on first encounter and
\* dropped when the entity is removed, after any entity-list updates and ticks.
C32_PacketsOnlyForEntities == cortexIds \subseteq ParticleIds

\* p lies within the canvas, its radius away from every edge
WithinCanvas(p, canvas) ==
    /\ p.radius <= p.position.x /\ p.position.x <= canvas.width * SCALE - p.radius
    /\ p.radius <= p.position.y /\ p.position.y <= canvas.height * SCALE - p.radius

\* the canvas is at least 2 * radius wide and high
CanvasHolds(p, canvas) ==
    2 * p.radius <= canvas.width * SCALE /\ 2 * p.radius <= canvas.height * SCALE

\* C33: at the end of every tick each entity's position satisfies radius <= x <=
\* width - radius and radius <= y <= height - radius, for a canvas at least
\* 2 * radius wide and high, whatever the position was before the tick.
C33_EndOfTickWithinCanvas ==
    phase = "done" =>
        \A n \in 1..Len(particles) :
            CanvasHolds(particles[n], props.canvas) => WithinCanvas(particles[n], props.canvas)

\* C33 witness: a tick has ended with an entity held at the top left bound,
\* where the clamp put it after a reposition to a point outside the bounds.
C33_Witness ==
    /\ phase = "done"
    /\ \E n \in 1..Len(particles) :
          /\ CanvasHolds(particles[n], props.canvas)
          /\ particles[n].position = Vec(particles[n].radius, particles[n].radius)

\* speed >= minVelocityThreshold
AtLeastThreshold(ig, velocity) ==
    VMagnitude(velocity) * ig.minVelocityThreshold.den >= ig.minVelocityThreshold.num * SCALE

\* the state integrate was called on, after the method's step and the damping
DampedStep == ApplyDamping(IntegrateStep(integrator, lastOp.pre, lastOp.arg))

\* C34: after integrate on a state with mass > 0 and damping in [0,1], for each
\* of the three methods: acceleration is zero, speed does not exceed
\* maxVelocity, and speed is either exactly zero or at least
\* minVelocityThreshold.
C34_IntegratePostconditions ==
    (lastOp.op = "integrate" /\ lastOp.pre.mass > 0) =>
        /\ kinetic.acceleration = VecZero
        /\ VMagnitude(kinetic.velocity) <= integrator.maxVelocity
        /\ kinetic.velocity = VecZero \/ AtLeastThreshold(integrator, kinetic.velocity)

\* C34 witness: integrate with the Verlet method brought a moving state of
\* positive mass, slower than the threshold after damping, to rest.
C34_Witness ==
    /\ lastOp.op = "integrate"
    /\ lastOp.pre.mass > 0
    /\ integrator.method = VELOCITY_VERLET
    /\ DampedStep.velocity # VecZero
    /\ ~AtLeastThreshold(integrator, DampedStep.velocity)
    /\ kinetic.velocity = VecZero

\* a coordinate lies outside [radius, size - radius]
OutsideAxis(coordinate, radius, size) ==
    coordinate < radius \/ coordinate > size * SCALE - radius

\* the boundary, offset by the radius, on the side the coordinate is outside of
BoundaryFor(coordinate, radius, size) ==
    IF coordinate < radius THEN radius ELSE size * SCALE - radius

\* velocity component times -bounce, once
BouncedOnce(v, bounceFactor) == Quot(v * (0 - bounceFactor.num), bounceFactor.den)

\* what the claim says constrain(before, box) leaves: per axis, the boundary and
\* one bounce where the position was outside, nothing changed where it was not
ConstrainedAsClaimed(before, after, box, bounceFactor) ==
    LET r == before.radius
        outX == OutsideAxis(before.position.x, r, box.width)
        outY == OutsideAxis(before.position.y, r, box.height)
    IN  /\ ~OutsideAxis(after.position.x, r, box.width)
        /\ ~OutsideAxis(after.position.y, r, box.height)
        /\ after.position.x = IF outX THEN BoundaryFor(before.position.x, r, box.width)
                              ELSE before.position.x
        /\ after.position.y = IF outY THEN BoundaryFor(before.position.y, r, box.height)
                              ELSE before.position.y
        /\ after.velocity.x = IF outX THEN BouncedOnce(before.velocity.x, bounceFactor)
                              ELSE before.velocity.x
        /\ after.velocity.y = IF outY THEN BouncedOnce(before.velocity.y, bounceFactor)
                              ELSE before.velocity.y
        /\ (~outX /\ ~outY) => after = before
        /\ Constrain(after, box.width, box.height, bounceFactor).position = after.position

\* the box is at least as wide and as high as the state's diameter
BoxHolds(state, box) ==
    2 * state.radius <= box.width * SCALE /\ 2 * state.radius <= box.height * SCALE

\* C35: constrain(state, width, height, bounce) leaves the position inside
\* [radius, width - radius] x [radius, height - radius]; on each axis where the
\* position was outside, the position is the boundary offset by the radius and
\* that velocity component is multiplied by -bounce exactly once; a state
\* already inside is unchanged, so constrain is idempotent on position.
C35_ConstrainClampsAndBounces ==
    lastOp.op = "constrain" =>
        ConstrainedAsClaimed(lastOp.pre, kinetic, lastOp.arg, Fraction(1, 2))

\* C35 for a box that can hold the state (width and height at least twice the
\* radius): the same postconditions.
C35_ConstrainInBoxThatHolds ==
    (lastOp.op = "constrain" /\ BoxHolds(lastOp.pre, lastOp.arg)) =>
        ConstrainedAsClaimed(lastOp.pre, kinetic, lastOp.arg, Fraction(1, 2))

\* C35 witness: constrain put a state that had moved below a box that holds it
\* back on the bottom boundary and bounced its vertical velocity.
C35_Witness ==
    /\ lastOp.op = "constrain"
    /\ BoxHolds(lastOp.pre, lastOp.arg)
    /\ lastOp.pre.position.y > lastOp.arg.height * SCALE - lastOp.pre.radius
    /\ lastOp.pre.velocity.y # 0
    /\ kinetic.position.y = lastOp.arg.height * SCALE - kinetic.radius
    /\ kinetic.velocity.y # lastOp.pre.velocity.y

\* C36: after any sequence of pause(), resume() and animation-frame callbacks at
\* most one tick callback is pending at a time, so that ticks run at most once
\* per host animation frame (a pause followed by a resume before the pending
\* frame fires does not start a second loop).
C36_OneCallbackPending == Cardinality(pending) <= 1

\* the identities written, slot by slot, to the frames the history still holds
FramesHeld == LastN(log, chronos.recordedFrames)

\* C37: across any ticks and entity-list updates, slot i of every recorded
\* history frame holds the state of the same entity identity and every live
\* entity has a slot, so that a scrub restores each live entity to its own
\* recorded past state.
C37_SlotsFollowIdentities ==
    (phase = "idle" /\ HasChronos(chronos)) =>
        /\ Len(particles) <= chronos.entityCount
        /\ \A k \in 1..Len(FramesHeld), n \in 1..Len(particles) :
              n <= Len(FramesHeld[k]) /\ FramesHeld[k][n] = particles[n].id

\* the connection set holds a pair with id as an endpoint
IsEndpoint(id) ==
    \E other \in { IdA, IdB, IdC, IdWithColon } : SeqContains(connections, ConnectionKey(id, other))

\* C38: after any sequence of connect, disconnect and entity-list updates, an
\* entity's isConnected flag is true exactly when the connection set contains a
\* pair that has this entity as an endpoint.
C38_FlagFollowsConnections ==
    \A n \in 1..Len(particles) : particles[n].isConnected <=> IsEndpoint(particles[n].id)

\* a packet bound to a target has a target identity
BoundHasTarget ==
    packet.state \in { HUNTING_TARGET, ORBITAL_LOCK } => packet.targetId # NullTarget

\* clearTarget, and process taking the packet from ORBITAL_LOCK to IDLE_DRIFT,
\* leave targetId null
ClearedIsNull ==
    (\/ lastOp'.op = "clearTarget"
     \/ /\ lastOp'.op = "process"
        /\ packet.state = ORBITAL_LOCK
        /\ packet'.state = IDLE_DRIFT) => packet'.targetId = NullTarget

\* C39: whenever the packet's state is HUNTING_TARGET or ORBITAL_LOCK its
\* targetId is non-null, and whenever clearTarget or the ORBITAL_LOCK ->
\* IDLE_DRIFT transition has just run its targetId is null, after any sequence
\* of setTarget, setOrbit, clearTarget and process calls.
C39_TargetMatchesState ==
    /\ []BoundHasTarget
    /\ [][ClearedIsNull]_<< cortexTick, packet, vars >>

\* C39 witness: setOrbit was called, after a decision evaluation, on an idle
\* packet that had no target, and bound it to c.
C39_Witness ==
    /\ lastOp.op = "setOrbit"
    /\ lastOp.pre.state = IDLE_DRIFT
    /\ lastOp.pre.targetId = NullTarget
    /\ lastOp.pre.lastDecisionTick > 0
    /\ packet.state = ORBITAL_LOCK
    /\ packet.targetId = IdC

(***************************************************************************)
(* TransactionState: the transaction lifecycle.  A caller follows the       *)
(* transition map from some state, moving to a target only when             *)
(* canTransitionTo accepts it; transaction keeps the states gone through.   *)
(***************************************************************************)
DRAFT == 1
PENDING_PAYMENT == 2
PAYMENT_CONFIRMED == 4
SESSION_SCHEDULED == 8
IN_PROGRESS == 16
COMPLETED == 32
RATED == 64
CANCELLED == 128
REFUNDED == 256
DISPUTED == 512

TransactionStates ==
    { DRAFT, PENDING_PAYMENT, PAYMENT_CONFIRMED, SESSION_SCHEDULED, IN_PROGRESS, COMPLETED,
      RATED, CANCELLED, REFUNDED, DISPUTED }

\* a transition map in which a dispute reopens the session
TransactionStateTransitionsReopening ==
    [state \in TransactionStates |->
        CASE state = DRAFT -> << PENDING_PAYMENT, CANCELLED >>
          [] state = PENDING_PAYMENT -> << PAYMENT_CONFIRMED, CANCELLED >>
          [] state = PAYMENT_CONFIRMED -> << SESSION_SCHEDULED, REFUNDED >>
          [] state = SESSION_SCHEDULED -> << IN_PROGRESS, CANCELLED >>
          [] state = IN_PROGRESS -> << COMPLETED, DISPUTED >>
          [] state = COMPLETED -> << RATED >>
          [] state = RATED -> << >>
          [] state = CANCELLED -> << >>
          [] state = REFUNDED -> << >>
          [] state = DISPUTED -> << REFUNDED, IN_PROGRESS >>]

TransactionStateTransitions ==
    [state \in TransactionStates |->
        CASE state = DRAFT -> << PENDING_PAYMENT, CANCELLED >>
          [] state = PENDING_PAYMENT -> << PAYMENT_CONFIRMED, CANCELLED >>
          [] state = PAYMENT_CONFIRMED -> << SESSION_SCHEDULED, REFUNDED >>
          [] state = SESSION_SCHEDULED -> << IN_PROGRESS, CANCELLED >>
          [] state = IN_PROGRESS -> << COMPLETED, DISPUTED >>
          [] state = COMPLETED -> << RATED >>
          [] state = RATED -> << >>
          [] state = CANCELLED -> << >>
          [] state = REFUNDED -> << >>
          [] state = DISPUTED -> << REFUNDED, COMPLETED >>]

\* allowedTransitions?.includes(target) ?? false
CanTransitionTo(current, target) ==
    /\ current \in DOMAIN TransactionStateTransitions
    /\ SeqContains(TransactionStateTransitions[current], target)

\* TransactionStateTransitions[state]?.length === 0
IsTerminalState(state) ==
    /\ state \in DOMAIN TransactionStateTransitions
    /\ Len(TransactionStateTransitions[state]) = 0

\* the targets asked for: every state, and a number that is no state
TransitionTargetsTried == TransactionStates \cup { 0 }

CurrentTransactionState == transaction[Len(transaction)]

InitTransaction ==
    /\ \E state \in TransactionStates : transaction = << state >>
    /\ lastOp = Op("new", 0, << >>, FALSE)
    /\ BufferUnused
    /\ EngineUnused
    /\ CortexUnused
    /\ IntegratorUnused

\* the caller asks canTransitionTo(current, target) and moves when it says yes
DoCanTransitionTo ==
    \E target \in TransitionTargetsTried :
        LET accepted == CanTransitionTo(CurrentTransactionState, target)
        IN  /\ transaction' = IF accepted THEN Append(transaction, target) ELSE transaction
            /\ lastOp' = Op("canTransitionTo", target, CurrentTransactionState, accepted)
            /\ UNCHANGED << chronos, entities, log, calls, slotCall, engineVars, packet,
                            cortexTick, cortexCalls, integrator, kinetic, kineticOps >>

SpecTransaction == InitTransaction /\ [][DoCanTransitionTo]_vars

\* canTransitionTo accepts no target from the current state
ChainStopped ==
    \A target \in TransitionTargetsTried : ~CanTransitionTo(CurrentTransactionState, target)

====
